---- MODULE Spec2Model ----
(***************************************************************************)
(* The delayed-exchange crawl worker of services/instagram-scraper         *)
(* (src/worker.py, src/instagram_crawler.py, src/models.py) as a state     *)
(* machine: a producer puts requests on 'crawl_requests', the worker       *)
(* handles one delivery at a time with process_message, and the broker     *)
(* moves delayed messages from 'delayed_exchange' back to the work queue.  *)
(***************************************************************************)
EXTENDS Integers, Sequences, FiniteSets, TLC

(* ---------------------------- bounds ----------------------------------- *)
MaxRequests == 2      \* logical requests the producer publishes
MaxClock == 1         \* time.time() ranges over 0..MaxClock
MaxHeaderCount == 4   \* largest x-retry-count a producer may send
MaxBreaks == 1        \* channel failures injected over a run

(* ------------------------ program constants ---------------------------- *)
max_retries == 3
\* the rate-limit table and the transient table of _schedule_retry, in ms
long_delays_capped == <<300000, 900000, 900000>>
long_delays == <<300000, 900000, 3600000>>
short_delays_shifted == <<30000, 30000, 300000>>
short_delays == <<30000, 300000, 900000>>
error_limit == 500

Min(a, b) == IF a < b THEN a ELSE b

(* ------------------------------ text ----------------------------------- *)
\* A Python str: its words and its length in characters.
Txt(words, n) == [msg |-> words, len |-> n]
Cat(a, b) == [msg |-> a.msg \o b.msg, len |-> a.len + b.len]
\* error[:n]
Truncate_whole(e, n) == e
Truncate(e, n) == [msg |-> e.msg, len |-> Min(e.len, n)]
NoText == Txt(<<>>, 0)

\* str.lower() on the words that occur in the upstream texts
Lower(w) == CASE w = "Rate" -> "rate" [] w = "Limit" -> "limit" [] OTHER -> w
LowerAll(ws) == [i \in 1..Len(ws) |-> Lower(ws[i])]
\* pat in s, for sequences of tokens
Contains(s, pat) ==
  \E i \in 1..(Len(s) - Len(pat) + 1) : SubSeq(s, i, i + Len(pat) - 1) = pat

(* ------------------------------ URLs ----------------------------------- *)
\* A URL is the sequence of its tokens, "/" being a token of its own.
PostUrl == <<"https:", "/", "/", "www.instagram.com", "/", "p", "/", "ABC", "/">>
ReelUrl == <<"https:", "/", "/", "www.instagram.com", "/", "reel", "/", "XYZ">>
FacebookUrl == <<"https:", "/", "/", "www.facebook.com", "/", "x">>
BareHostUrl == <<"https:", "/", "/", "www.instagram.com">>
NotAUrl == <<"not-a-url">>

\* pydantic HttpUrl: an absolute http(s) URL with a host
IsHttpUrl(u) ==
  /\ Len(u) >= 4
  /\ u[1] \in {"http:", "https:"}
  /\ u[2] = "/" /\ u[3] = "/"
  /\ u[4] # "/"
\* str(HttpUrl): an empty path is rendered as "/"
UrlStr(u) == IF Len(u) = 4 THEN u \o <<"/">> ELSE u

\* s.split(sep)[-1]: split scans s from the left for occurrences of sep that
\* do not overlap; the last piece is what follows the last of them
RECURSIVE AfterLastFrom(_, _, _, _)
AfterLastFrom(s, sep, i, start) ==
  IF i > Len(s) - Len(sep) + 1 THEN SubSeq(s, start, Len(s))
  ELSE IF SubSeq(s, i, i + Len(sep) - 1) = sep
    THEN AfterLastFrom(s, sep, i + Len(sep), i + Len(sep))
  ELSE AfterLastFrom(s, sep, i + 1, start)
AfterLast(s, sep) == AfterLastFrom(s, sep, 1, 1)
\* s.split('/')[0]: what precedes the first "/"
BeforeFirstSlash(s) ==
  LET occ == {i \in 1..Len(s) : s[i] = "/"}
      first == CHOOSE i \in occ : \A j \in occ : i <= j
  IN IF occ = {} THEN s ELSE SubSeq(s, 1, first - 1)

\* InstagramCrawler._extract_shortcode: ok = FALSE stands for ValueError
_extract_shortcode(url) ==
  IF Contains(url, <<"/", "p", "/">>)
    THEN [ok |-> TRUE, code |-> BeforeFirstSlash(AfterLast(url, <<"/", "p", "/">>))]
  ELSE IF Contains(url, <<"/", "reel", "/">>)
    THEN [ok |-> TRUE, code |-> BeforeFirstSlash(AfterLast(url, <<"/", "reel", "/">>))]
  ELSE [ok |-> FALSE, code |-> <<>>]

(* ------------------------- message bodies ------------------------------ *)
\* JSON values: a number, an object (its string fields) or a list of values.
NoFields == [k \in {} |-> <<>>]
JNum == [t |-> "num", items |-> <<>>, fields |-> NoFields]
JObj(f) == [t |-> "obj", items |-> <<>>, fields |-> f]
JList(xs) == [t |-> "list", items |-> xs, fields |-> NoFields]
UrlObj(u) == JObj([k \in {"instagram_url"} |-> u])

\* A body is bytes: either the text of a JSON value or not JSON at all.
Json(v) == [is_json |-> TRUE, val |-> v]
NotJson == [is_json |-> FALSE, val |-> JNum]

Bodies ==
  { NotJson,
    Json(JNum),
    Json(JList(<<>>)),
    Json(JList(<<JNum>>)),
    Json(JList(<<UrlObj(PostUrl)>>)),
    Json(JList(<<UrlObj(ReelUrl), UrlObj(FacebookUrl)>>)),
    Json(UrlObj(PostUrl)),
    Json(UrlObj(ReelUrl)),
    Json(UrlObj(FacebookUrl)),
    Json(UrlObj(BareHostUrl)),
    Json(UrlObj(NotAUrl)),
    Json(JObj(NoFields)) }

(* ----------------------------- headers --------------------------------- *)
\* A header table is a function from header names to values; the value of
\* x-retry-count is an integer or, from a foreign producer, a string, and a
\* producer may set headers of its own, such as x-source.
NoHeaders == [k \in {} |-> 0]
IntV(n) == [t |-> "int", v |-> n]
StrV(n) == [t |-> "str", v |-> n]
ProducerHeaders ==
  {NoHeaders}
    \cup {[k \in {"x-retry-count"} |-> IntV(n)] : n \in 0..MaxHeaderCount}
    \cup {[k \in {"x-retry-count"} |-> IntV(-4)], [k \in {"x-retry-count"} |-> StrV(1)]}
    \cup {[k \in {"x-source"} |-> StrV(0)],
          [k \in {"x-retry-count", "x-source"} |->
             IF k = "x-retry-count" THEN IntV(1) ELSE StrV(0)]}

\* dict update: d[k] = v
Put_fresh(d, k, v) == [x \in {k} |-> v]
Put(d, k, v) == [x \in DOMAIN d \cup {k} |-> IF x = k THEN v ELSE d[x]]


(* --------------------------- error texts ------------------------------- *)
\* Length in characters of the tokens URLs are made of
TokenLen(w) ==
  CASE w = "/" -> 1 [] w = "p" -> 1 [] w = "x" -> 1
    [] w = "https:" -> 6 [] w = "reel" -> 4 [] w = "ABC" -> 3 [] w = "XYZ" -> 3
    [] w = "www.instagram.com" -> 17 [] w = "www.facebook.com" -> 16
    [] w = "not-a-url" -> 9 [] OTHER -> 0
RECURSIVE SumLen(_)
SumLen(ws) == IF ws = <<>> THEN 0 ELSE TokenLen(Head(ws)) + SumLen(Tail(ws))
UrlText(u) == Txt(u, SumLen(u))

JsonDecodeText == Txt(<<"Expecting", "value">>, 40)
ListFormatText == Txt(<<"Invalid", "message", "format:", "expected", "dict", "or", "list", "of", "dicts">>, 79)
ScalarFormatText == Txt(<<"Invalid", "message", "format:", "expected", "dict", "or", "list">>, 67)
ValidationText == Txt(<<"validation", "error", "for", "CrawlRequest">>, 150)
InvalidUrlPrefix == Txt(<<"Invalid", "Instagram", "URL", "format:">>, 30)
RateLimitPrefix == Txt(<<"Instagram", "rate", "limit:">>, 22)
ConnectionPrefix == Txt(<<"Instagram", "connection", "error:">>, 28)
ExtractPrefix == Txt(<<"Failed", "to", "extract", "Instagram", "post:">>, 34)
MaxRetriesPrefix == Txt(<<"Max", "retries", "exceeded.", "Last", "error:">>, 34)
RetryFailedPrefix == Txt(<<"Retry", "scheduling", "failed:">>, 25)
ChannelError == Txt(<<"Channel", "is", "closed.">>, 18)

(* ------------------------ extractor outcomes --------------------------- *)
\* What instaloader does for a post that has a shortcode: it returns the
\* post or raises; the text is str(e) of what it raised.
ExtractorOutcomes ==
  { [kind |-> "ok", text |-> NoText],
    [kind |-> "ConnectionException", text |-> Txt(<<"401", "Unauthorized">>, 16)],
    [kind |-> "ConnectionException", text |-> Txt(<<"Rate", "Limit", "reached">>, 18)],
    [kind |-> "ConnectionException", text |-> Txt(<<"timed", "out">>, 9)],
    [kind |-> "Exception", text |-> Txt(<<"Network", "error">>, 13)],
    [kind |-> "Exception", text |-> Txt(<<"traceback">>, 600)] }

\* '401' in error_msg or '403' in error_msg or 'rate limit' in error_msg.lower()
IsRateLimitText_case_sensitive(text) ==
  \/ Contains(text.msg, <<"401">>)
  \/ Contains(text.msg, <<"403">>)
  \/ Contains(text.msg, <<"rate", "limit">>)
IsRateLimitText(text) ==
  \/ Contains(text.msg, <<"401">>)
  \/ Contains(text.msg, <<"403">>)
  \/ Contains(LowerAll(text.msg), <<"rate", "limit">>)

\* InstagramCrawler.extract_post_data: exc = "none" stands for a return
extract_post_data(instagram_url, ext) ==
  LET sc == _extract_shortcode(instagram_url) IN
  IF ~sc.ok
    THEN [exc |-> "Exception",
          err |-> Cat(ExtractPrefix, Cat(InvalidUrlPrefix, UrlText(instagram_url))),
          data |-> [url |-> <<>>, post |-> <<>>]]
  ELSE IF ext.kind = "ConnectionException"
    THEN IF IsRateLimitText(ext.text)
           THEN [exc |-> "InstagramRateLimitError",
                 err |-> Cat(RateLimitPrefix, ext.text),
                 data |-> [url |-> <<>>, post |-> <<>>]]
           ELSE [exc |-> "Exception",
                 err |-> Cat(ConnectionPrefix, ext.text),
                 data |-> [url |-> <<>>, post |-> <<>>]]
  ELSE IF ext.kind = "Exception"
    THEN [exc |-> "Exception",
          err |-> Cat(ExtractPrefix, ext.text),
          data |-> [url |-> <<>>, post |-> <<>>]]
  ELSE [exc |-> "none", err |-> NoText,
        data |-> [url |-> instagram_url, post |-> sc.code]]

(* ------------------------- channel operations -------------------------- *)
\* The effects of one handler run: the channel operations it issued in order
\* (ok = the broker took it), the exception it is raising if any, and brk,
\* the number of the first channel operation that fails; a channel that has
\* failed stays failed.
MaxChannelOps == 5
NoBreak == MaxChannelOps + 1
Ctx0(brk) == [ops |-> <<>>, exc |-> "none", err |-> NoText, brk |-> brk]
ChanOk(c) == Len(c.ops) + 1 < c.brk
LastOk(c) == c.ops[Len(c.ops)].ok
Raise(c, exc, err) == [c EXCEPT !.exc = exc, !.err = err]

basic_publish(c, exchange, routing_key, body, headers) ==
  [c EXCEPT !.ops = Append(@, [method |-> "basic_publish", exchange |-> exchange,
                               routing_key |-> routing_key, body |-> body,
                               headers |-> headers, delivery_mode |-> 2,
                               ok |-> ChanOk(c)])]
basic_ack_only_first(c, delivery_tag) ==
  IF delivery_tag > 1 THEN c
  ELSE [c EXCEPT !.ops = Append(@, [method |-> "basic_ack", delivery_tag |-> delivery_tag,
                                    ok |-> ChanOk(c)])]
basic_ack(c, delivery_tag) ==
  [c EXCEPT !.ops = Append(@, [method |-> "basic_ack", delivery_tag |-> delivery_tag,
                               ok |-> ChanOk(c)])]

\* CrawlWorker.publish_raw_recipe_data: logs and re-raises a failed publish
publish_raw_recipe_data(c, raw_data) ==
  LET c1 == basic_publish(c, "", "raw_recipe_data", raw_data, NoHeaders)
  IN IF LastOk(c1) THEN c1 ELSE Raise(c1, "AMQPError", ChannelError)

\* CrawlWorker._move_to_failed_queue: whatever is raised in it, by json.loads
\* of the original body or by basic_publish, is logged and swallowed
_move_to_failed_queue_raising(c, original_body, error_msg, now) ==
  Raise(c, "AMQPError", ChannelError)
_move_to_failed_queue(c, original_body, error_msg, now) ==
  IF ~original_body.is_json
    THEN c
    ELSE basic_publish(c, "", "crawl_requests_failed",
                       [original_message |-> original_body.val,
                        error |-> error_msg, timestamp |-> now],
                       NoHeaders)

\* CrawlWorker._get_retry_count
_get_retry_count_ignoring_header(headers) == IntV(0)
_get_retry_count(headers) ==
  IF "x-retry-count" \in DOMAIN headers THEN headers["x-retry-count"] ELSE IntV(0)

\* seq[i] of Python for i <= 2: a negative i counts from the end
PyIndex(seq, i) == IF i >= 0 THEN seq[i + 1] ELSE seq[Len(seq) + i + 1]

\* min(retry_count, 2), the index into the delay lists
DelayIndex_clamped_to_one(retry_count) == Min(retry_count, 1)
DelayIndex(retry_count) == Min(retry_count, 2)

\* retry_count >= max_retries
ReachedMaxRetries_only_equal(retry_count) == retry_count = max_retries
ReachedMaxRetries(retry_count) == retry_count >= max_retries

\* new_headers['x-retry-count'] = retry_count + 1
NextRetryCount_unchanged(retry_count) == retry_count
NextRetryCount(retry_count) == retry_count + 1

\* new_headers.get('x-first-attempt', int(time.time()))
FirstAttempt_overwritten(new_headers, now) == now
FirstAttempt(new_headers, now) ==
  IF "x-first-attempt" \in DOMAIN new_headers THEN new_headers["x-first-attempt"] ELSE now

\* CrawlWorker._schedule_retry
_schedule_retry(c, body, headers, retry_count, delay_type, error, now) ==
  IF retry_count.t # "int"
    THEN Raise(c, "TypeError", NoText)
  ELSE IF ReachedMaxRetries(retry_count.v)
    THEN _move_to_failed_queue(c, body, Cat(MaxRetriesPrefix, error), now)
  ELSE IF DelayIndex(retry_count.v) < 0 - Len(long_delays)
    THEN Raise(c, "IndexError", NoText)
  ELSE
    LET delay_ms == IF delay_type = "long"
                      THEN PyIndex(long_delays, DelayIndex(retry_count.v))
                      ELSE PyIndex(short_delays, DelayIndex(retry_count.v))
        h1 == Put(headers, "x-retry-count", IntV(NextRetryCount(retry_count.v)))
        h2 == Put(h1, "x-first-attempt", FirstAttempt(h1, now))
        h3 == Put(h2, "x-last-error", Truncate(error, error_limit))
        new_headers == Put(h3, "x-delay", delay_ms)
        c1 == basic_publish(c, "delayed_exchange", "crawl_requests", body, new_headers)
    IN IF LastOk(c1)
         THEN c1
         ELSE _move_to_failed_queue(c1, body, Cat(RetryFailedPrefix, ChannelError), now)

(* --------------------------- process_message --------------------------- *)
\* raw_data[0]
FirstElement_last(raw_data) == raw_data[Len(raw_data)]
FirstElement(raw_data) == raw_data[1]

\* json.loads(body.decode()) and the dict / list-of-dict shim; ok = FALSE
\* stands for ValueError (json.JSONDecodeError is a ValueError)
DecodeRequest(body) ==
  IF ~body.is_json
    THEN [ok |-> FALSE, err |-> JsonDecodeText, request_data |-> NoFields]
  ELSE IF body.val.t = "list"
    THEN IF Len(body.val.items) > 0 /\ FirstElement(body.val.items).t = "obj"
           THEN [ok |-> TRUE, err |-> NoText,
                 request_data |-> FirstElement(body.val.items).fields]
           ELSE [ok |-> FALSE, err |-> ListFormatText, request_data |-> NoFields]
  ELSE IF body.val.t = "obj"
    THEN [ok |-> TRUE, err |-> NoText, request_data |-> body.val.fields]
  ELSE [ok |-> FALSE, err |-> ScalarFormatText, request_data |-> NoFields]

\* CrawlRequest(**request_data): instagram_url is required and an HttpUrl;
\* ok = FALSE stands for pydantic's ValidationError, a ValueError
CrawlRequest(request_data) ==
  IF "instagram_url" \in DOMAIN request_data /\ IsHttpUrl(request_data["instagram_url"])
    THEN [ok |-> TRUE, instagram_url |-> request_data["instagram_url"]]
    ELSE [ok |-> FALSE, instagram_url |-> <<>>]

\* The try block of process_message, up to and including its basic_ack
TryBlock_publishing_first(c, body, delivery_tag, ext) ==
  LET dec == DecodeRequest(body)
      request == CrawlRequest(dec.request_data)
      ex == extract_post_data(UrlStr(request.instagram_url), ext)
      c1 == publish_raw_recipe_data(c, ex.data)
      c2 == basic_ack(c1, delivery_tag)
  IN IF ~dec.ok THEN Raise(c, "ValueError", dec.err)
     ELSE IF ~request.ok THEN Raise(c, "ValueError", ValidationText)
     ELSE IF c1.exc # "none" THEN c1
     ELSE IF ex.exc # "none" THEN Raise(c1, ex.exc, ex.err)
     ELSE IF LastOk(c2) THEN c2
     ELSE Raise(c2, "AMQPError", ChannelError)
TryBlock(c, body, delivery_tag, ext) ==
  LET dec == DecodeRequest(body)
      request == CrawlRequest(dec.request_data)
      ex == extract_post_data(UrlStr(request.instagram_url), ext)
      c1 == publish_raw_recipe_data(c, ex.data)
      c2 == basic_ack(c1, delivery_tag)
  IN IF ~dec.ok THEN Raise(c, "ValueError", dec.err)
     ELSE IF ~request.ok THEN Raise(c, "ValueError", ValidationText)
     ELSE IF ex.exc # "none" THEN Raise(c, ex.exc, ex.err)
     ELSE IF c1.exc # "none" THEN c1
     ELSE IF LastOk(c2) THEN c2
     ELSE Raise(c2, "AMQPError", ChannelError)

\* ch.basic_ack at the end of an except branch; what it raises leaves
\* process_message, as does what the branch raised before it
AckAfter(c, delivery_tag) ==
  IF c.exc # "none"
    THEN c
    ELSE LET c1 == basic_ack(c, delivery_tag)
         IN IF LastOk(c1) THEN c1 ELSE Raise(c1, "AMQPError", ChannelError)

\* The except clause that takes an exception class
CaughtBy(exc) ==
  CASE exc = "none" -> "none"
    [] exc = "InstagramRateLimitError" -> "InstagramRateLimitError"
    [] exc = "ValueError" -> "ValueError"
    [] OTHER -> "Exception"

\* CrawlWorker.process_message for one delivery: the channel operations it
\* issues, the except branch it took (caught) and the exception that leaves
\* it (exc, "none" for a normal return)
process_message(msg, delivery_tag, ext, brk, now) ==
  LET tried == TryBlock(Ctx0(brk), msg.body, delivery_tag, ext)
      caught == CaughtBy(tried.exc)
      c == Raise(tried, "none", NoText)
      done ==
        CASE caught = "none" -> tried
          [] caught = "InstagramRateLimitError" ->
               AckAfter(_schedule_retry(c, msg.body, msg.headers,
                                        _get_retry_count(msg.headers),
                                        "long", tried.err, now), delivery_tag)
          [] caught = "ValueError" ->
               AckAfter(_move_to_failed_queue(c, msg.body, tried.err, now), delivery_tag)
          [] OTHER ->
               AckAfter(_schedule_retry(c, msg.body, msg.headers,
                                        _get_retry_count(msg.headers),
                                        "short", tried.err, now), delivery_tag)
  IN [ops |-> done.ops, exc |-> done.exc, caught |-> caught, error |-> tried.err]

(* ------------------------------- state --------------------------------- *)
VARIABLES
  crawl_requests,         \* the work queue, a sequence of messages
  delayed_exchange,       \* messages the delayed exchange is holding
  raw_recipe_data,        \* the result queue
  crawl_requests_failed,  \* the dead-letter queue
  worker,                 \* "init", "consuming" or "stopped"
  delivery_tag,           \* deliveries made on the worker's channel
  clock,                  \* time.time()
  produced,               \* logical requests published so far
  breaks,                 \* channel failures so far
  last,                   \* the last run of process_message
  unacked,                \* deliveries the consumer holds unacknowledged
  task                    \* the call of a function of tasks.py under way

vars == <<crawl_requests, delayed_exchange, raw_recipe_data, crawl_requests_failed,
          worker, delivery_tag, clock, produced, breaks, last, unacked, task>>

\* No function of tasks.py has been called
NoTask == [variant |-> "none"]

NoMessage == [id |-> 0, body |-> NotJson, headers |-> NoHeaders]
NoRun == [handled |-> FALSE, msg |-> NoMessage, tag |-> 0,
          ext |-> [kind |-> "ok", text |-> NoText], now |-> 0,
          ops |-> <<>>, exc |-> "none", caught |-> "none", error |-> NoText]

\* What the producers of the repository publish: a JSON object with the URL
\* given to them, and no headers
ProducerBodies == {Json(UrlObj(PostUrl)), Json(UrlObj(FacebookUrl))}
\* The extractor outcomes of the whole-system specification
UpstreamOutcomes ==
  {e \in ExtractorOutcomes : e.kind = "ok" \/ Contains(e.text.msg, <<"401">>)
                                \/ e.text.len > error_limit}

Init ==
  /\ crawl_requests = <<>>
  /\ delayed_exchange = <<>>
  /\ raw_recipe_data = <<>>
  /\ crawl_requests_failed = <<>>
  /\ worker = "init"
  /\ delivery_tag = 0
  /\ clock = 0
  /\ produced = 0
  /\ breaks = 0
  /\ last = NoRun
  /\ unacked = <<>>
  /\ task = NoTask

\* The publishes of ops that the broker took for one exchange and routing key,
\* as the messages they put there
RECURSIVE Routed(_, _, _, _)
Routed(ops, id, exchange, routing_key) ==
  IF ops = <<>> THEN <<>>
  ELSE LET op == Head(ops)
           rest == Routed(Tail(ops), id, exchange, routing_key)
       IN IF /\ op.method = "basic_publish" /\ op.ok
             /\ op.exchange = exchange /\ op.routing_key = routing_key
            THEN <<[id |-> id, body |-> op.body, headers |-> op.headers]>> \o rest
            ELSE rest

Acked(ops) == \E i \in 1..Len(ops) : ops[i].method = "basic_ack" /\ ops[i].ok
Failed(ops) == \E i \in 1..Len(ops) : ~ops[i].ok

\* A producer publishes a request to 'crawl_requests'
Produce ==
  /\ produced < MaxRequests
  /\ \E body \in ProducerBodies :
       crawl_requests' = Append(crawl_requests,
                                [id |-> produced + 1, body |-> body, headers |-> NoHeaders])
  /\ produced' = produced + 1
  /\ UNCHANGED <<delayed_exchange, raw_recipe_data, crawl_requests_failed,
                 worker, delivery_tag, clock, breaks, last, unacked, task>>

\* CrawlWorker.start: connect and consume
Start ==
  /\ worker \in {"init", "stopped"}
  /\ worker' = "consuming"
  /\ delivery_tag' = 0
  /\ UNCHANGED <<crawl_requests, delayed_exchange, raw_recipe_data,
                 crawl_requests_failed, clock, produced, breaks, last, unacked, task>>

\* The channel operation of a run that fails first, while failures remain
BreakPoints == (IF breaks < MaxBreaks THEN 1..MaxChannelOps ELSE {}) \cup {NoBreak}

\* The broker delivers the head of 'crawl_requests' and the worker runs
\* process_message on it, the extractor behaving as one of outcomes and the
\* channel failing from one of breakpoints on. An exception that leaves
\* process_message ends the process, and the broker requeues the delivery if
\* it was not acknowledged.
ProcessMessage(outcomes, breakpoints) ==
  /\ worker = "consuming"
  /\ crawl_requests # <<>>
  /\ \E ext \in outcomes, brk \in breakpoints :
       \E run \in {process_message(Head(crawl_requests), delivery_tag + 1, ext, brk, clock)} :
          /\ last' = [handled |-> TRUE, msg |-> Head(crawl_requests),
                      tag |-> delivery_tag + 1, ext |-> ext, now |-> clock,
                      ops |-> run.ops, exc |-> run.exc,
                      caught |-> run.caught, error |-> run.error]
          /\ raw_recipe_data' =
               raw_recipe_data \o Routed(run.ops, Head(crawl_requests).id, "", "raw_recipe_data")
          /\ crawl_requests_failed' =
               crawl_requests_failed
                 \o Routed(run.ops, Head(crawl_requests).id, "", "crawl_requests_failed")
          /\ delayed_exchange' =
               delayed_exchange
                 \o Routed(run.ops, Head(crawl_requests).id, "delayed_exchange", "crawl_requests")
          /\ crawl_requests' = IF Acked(run.ops) THEN Tail(crawl_requests) ELSE crawl_requests
          /\ worker' = IF run.exc = "none" THEN "consuming" ELSE "stopped"
          /\ delivery_tag' = delivery_tag + 1
          /\ breaks' = IF Failed(run.ops) THEN breaks + 1 ELSE breaks
  /\ UNCHANGED <<clock, produced, unacked, task>>

\* The delay of a held message elapses: the exchange routes it to the queue
\* bound with its routing key, 'crawl_requests'. Time has passed.
DeliverDelayed ==
  /\ \E i \in 1..Len(delayed_exchange) :
       /\ crawl_requests' = Append(crawl_requests, delayed_exchange[i])
       /\ delayed_exchange' = SubSeq(delayed_exchange, 1, i - 1)
                                \o SubSeq(delayed_exchange, i + 1, Len(delayed_exchange))
  /\ clock' = Min(clock + 1, MaxClock)
  /\ UNCHANGED <<raw_recipe_data, crawl_requests_failed, worker, delivery_tag,
                 produced, breaks, last, unacked, task>>

\* The worker consumes on a channel that does not fail
Consume == ProcessMessage(UpstreamOutcomes, {NoBreak})

Next == Produce \/ Start \/ Consume \/ DeliverDelayed

Spec == Init /\ [][Next]_vars

(* ----------------- one delivery, whatever it carries ------------------- *)
\* A consuming worker is given one delivery with any body and any headers,
\* at any time, and handles it with any extractor outcome on a channel that
\* may fail at any of its operations; a worker that has stopped is started
\* again and is given the delivery again if it was left unacknowledged.
InitDelivery ==
  /\ \E body \in Bodies, headers \in ProducerHeaders :
       crawl_requests = <<[id |-> 1, body |-> body, headers |-> headers]>>
  /\ delayed_exchange = <<>>
  /\ raw_recipe_data = <<>>
  /\ crawl_requests_failed = <<>>
  /\ worker = "consuming"
  /\ delivery_tag = 0
  /\ clock \in 0..MaxClock
  /\ produced = 1
  /\ breaks = 0
  /\ last = NoRun
  /\ unacked = <<>>
  /\ task = NoTask

Deliver == ProcessMessage(ExtractorOutcomes, BreakPoints)

NextDelivery == Deliver \/ Start

SpecDelivery == InitDelivery /\ [][NextDelivery]_vars

(* ------------- two transient failures, then a success ------------------ *)
\* The extractor outcomes that process_message handles as a transient failure
TransientOutcomes ==
  {e \in ExtractorOutcomes :
     /\ e.kind # "ok"
     /\ ~(e.kind = "ConnectionException" /\ IsRateLimitText(e.text))}

\* Extraction fails transiently on the first and on the second delivery of a
\* request and succeeds from the third on
ScriptedOutcomes(msg) ==
  IF _get_retry_count(msg.headers).v < 2
    THEN TransientOutcomes
    ELSE {e \in ExtractorOutcomes : e.kind = "ok"}

ConsumeScripted == ProcessMessage(ScriptedOutcomes(Head(crawl_requests)), {NoBreak})

NextTrace == Produce \/ Start \/ ConsumeScripted \/ DeliverDelayed

SpecTrace == Init /\ [][NextTrace]_vars

(* ------------------------- SIGINT and SIGTERM -------------------------- *)
\* One request is waiting when the worker is started
InitShutdown ==
  /\ \E body \in ProducerBodies :
       crawl_requests = <<[id |-> 1, body |-> body, headers |-> NoHeaders]>>
  /\ delayed_exchange = <<>>
  /\ raw_recipe_data = <<>>
  /\ crawl_requests_failed = <<>>
  /\ worker = "init"
  /\ delivery_tag = 0
  /\ clock = 0
  /\ produced = 1
  /\ breaks = 0
  /\ last = NoRun
  /\ unacked = <<>>
  /\ task = NoTask

\* The signal arrives while start_consuming waits for a delivery:
\* handle_shutdown calls stop, which closes the connection and exits
ShutdownIdle ==
  /\ worker = "consuming"
  /\ worker' = "exited"
  /\ UNCHANGED <<crawl_requests, delayed_exchange, raw_recipe_data, crawl_requests_failed,
                 delivery_tag, clock, produced, breaks, last, unacked, task>>

\* The signal arrives while process_message handles a delivery, after the
\* first k of its channel operations: the handler runs inside
\* process_message, stop closes the connection and sys.exit raises
\* SystemExit, which no except clause of process_message takes. What was
\* published stays published, and the broker requeues the delivery unless
\* its basic_ack was among the k operations.
ShutdownDuring ==
  /\ worker = "consuming"
  /\ crawl_requests # <<>>
  /\ \E ext \in UpstreamOutcomes :
       \E run \in {process_message(Head(crawl_requests), delivery_tag + 1, ext, NoBreak, clock)} :
         \E k \in 0..Len(run.ops) :
           \E caught \in (IF k = 0 THEN {"none", run.caught} ELSE {run.caught}) :
             /\ last' = [handled |-> TRUE, msg |-> Head(crawl_requests),
                         tag |-> delivery_tag + 1, ext |-> ext, now |-> clock,
                         ops |-> SubSeq(run.ops, 1, k), exc |-> "SystemExit",
                         caught |-> caught, error |-> run.error]
             /\ raw_recipe_data' =
                  raw_recipe_data
                    \o Routed(SubSeq(run.ops, 1, k), Head(crawl_requests).id, "", "raw_recipe_data")
             /\ crawl_requests_failed' =
                  crawl_requests_failed
                    \o Routed(SubSeq(run.ops, 1, k), Head(crawl_requests).id,
                              "", "crawl_requests_failed")
             /\ delayed_exchange' =
                  delayed_exchange
                    \o Routed(SubSeq(run.ops, 1, k), Head(crawl_requests).id,
                              "delayed_exchange", "crawl_requests")
             /\ crawl_requests' = IF Acked(SubSeq(run.ops, 1, k))
                                    THEN Tail(crawl_requests) ELSE crawl_requests
  /\ worker' = "exited"
  /\ delivery_tag' = delivery_tag + 1
  /\ UNCHANGED <<clock, produced, breaks, unacked, task>>

handle_shutdown == ShutdownIdle \/ ShutdownDuring

NextShutdown == Start \/ Consume \/ DeliverDelayed \/ handle_shutdown

SpecShutdown == InitShutdown /\ [][NextShutdown]_vars

(* ----------------------- prefetch and manual ack ----------------------- *)
\* basic_qos(prefetch_count=1)
prefetch_count == 1

\* The broker sends a consumer another delivery only while the consumer holds
\* fewer unacknowledged deliveries than its prefetch count
MayDeliver_without_qos(held) == TRUE
MayDeliver(held) == held < prefetch_count

\* The broker sends the head of 'crawl_requests' to the consumer that
\* basic_consume registered with auto_ack=False
basic_deliver ==
  /\ worker = "consuming"
  /\ crawl_requests # <<>>
  /\ MayDeliver(Len(unacked))
  /\ unacked' = Append(unacked, Head(crawl_requests))
  /\ crawl_requests' = Tail(crawl_requests)
  /\ UNCHANGED <<delayed_exchange, raw_recipe_data, crawl_requests_failed, worker,
                 delivery_tag, clock, produced, breaks, last, task>>

\* start_consuming calls process_message for the deliveries it received, one
\* at a time and in their order; basic_ack releases the delivery, and a
\* delivery left unacknowledged by a process that ends goes back to the queue
on_message_callback ==
  /\ worker = "consuming"
  /\ unacked # <<>>
  /\ \E ext \in UpstreamOutcomes :
       \E run \in {process_message(Head(unacked), delivery_tag + 1, ext, NoBreak, clock)} :
          /\ last' = [handled |-> TRUE, msg |-> Head(unacked),
                      tag |-> delivery_tag + 1, ext |-> ext, now |-> clock,
                      ops |-> run.ops, exc |-> run.exc,
                      caught |-> run.caught, error |-> run.error]
          /\ raw_recipe_data' =
               raw_recipe_data \o Routed(run.ops, Head(unacked).id, "", "raw_recipe_data")
          /\ crawl_requests_failed' =
               crawl_requests_failed
                 \o Routed(run.ops, Head(unacked).id, "", "crawl_requests_failed")
          /\ delayed_exchange' =
               delayed_exchange
                 \o Routed(run.ops, Head(unacked).id, "delayed_exchange", "crawl_requests")
          /\ unacked' = IF run.exc # "none" THEN <<>>
                        ELSE IF Acked(run.ops) THEN Tail(unacked) ELSE unacked
          /\ crawl_requests' = IF run.exc # "none"
                                 THEN (IF Acked(run.ops) THEN Tail(unacked) ELSE unacked)
                                        \o crawl_requests
                                 ELSE crawl_requests
          /\ worker' = IF run.exc = "none" THEN "consuming" ELSE "stopped"
  /\ delivery_tag' = delivery_tag + 1
  /\ UNCHANGED <<clock, produced, breaks, task>>

NextPrefetch == Produce \/ Start \/ basic_deliver \/ on_message_callback \/ DeliverDelayed

SpecPrefetch == Init /\ [][NextPrefetch]_vars

(* ------------------------------ tasks.py ------------------------------- *)
\* Python values of the fields of RawRecipeData
NoneV == [t |-> "none"]
StrField(s) == [t |-> "str", v |-> s]
\* A datetime: its second, its microsecond, and whether it is naive or aware
Datetime(sec, micro, tz) == [t |-> "datetime", sec |-> sec, micro |-> micro, tz |-> tz]
Datetimes == {Datetime(sec, micro, tz) : sec \in {0, 1}, micro \in {0, 250000},
                                         tz \in {"naive", "utc"}}

\* datetime.isoformat(): the microsecond is written unless it is 0, the
\* offset unless the datetime is naive
isoformat_date_only(dt) ==
  [t |-> "isostr", seconds |-> 0, fraction |-> <<>>, offset |-> <<>>]
isoformat(dt) ==
  [t |-> "isostr", seconds |-> dt.sec,
   fraction |-> IF dt.micro = 0 THEN <<>> ELSE <<dt.micro>>,
   offset |-> IF dt.tz = "naive" THEN <<>> ELSE <<"+00:00">>]
\* pydantic's parsing of an ISO-8601 string for a datetime field
parse_datetime(str) ==
  Datetime(str.seconds,
           IF str.fraction = <<>> THEN 0 ELSE str.fraction[1],
           IF str.offset = <<>> THEN "naive" ELSE "utc")

\* The fields of RawRecipeData that the model keeps: two required strings,
\* the required datetime and one optional string (media_urls, author,
\* hashtags, mentions are required like caption; likes_count and
\* comments_count are optional like author_top_comment)
RequiredFields == {"url", "caption", "timestamp"}
\* RawRecipeData(**raw_data): ok = FALSE stands for pydantic's ValidationError
RawRecipeData(raw_data) ==
  IF /\ RequiredFields \subseteq DOMAIN raw_data
     /\ raw_data["url"].t = "str" /\ raw_data["caption"].t = "str"
     /\ raw_data["timestamp"].t \in {"datetime", "isostr"}
    THEN [ok |-> TRUE,
          model |-> [url |-> raw_data["url"], caption |-> raw_data["caption"],
                     timestamp |-> IF raw_data["timestamp"].t = "isostr"
                                     THEN parse_datetime(raw_data["timestamp"])
                                     ELSE raw_data["timestamp"],
                     author_top_comment |->
                       IF "author_top_comment" \in DOMAIN raw_data
                         THEN raw_data["author_top_comment"] ELSE NoneV]]
    ELSE [ok |-> FALSE, model |-> NoneV]
\* RawRecipeData.model_dump(): serialize_timestamp writes the timestamp
model_dump(model) == [model EXCEPT !.timestamp = isoformat(@)]

\* json.dumps and json.loads of a dict of such values
ToJson(v) ==
  CASE v.t = "none" -> [j |-> "null"]
    [] v.t = "str" -> [j |-> "string", iso |-> FALSE, chars |-> v.v]
    [] v.t = "isostr" -> [j |-> "string", iso |-> TRUE, chars |-> v]
    [] OTHER -> [j |-> "not serializable"]
FromJson(j) ==
  CASE j.j = "null" -> NoneV
    [] j.j = "string" -> (IF j.iso THEN j.chars ELSE StrField(j.chars))
    [] OTHER -> NoneV
json_dumps(message) == [k \in DOMAIN message |-> ToJson(message[k])]
json_loads(body) == [k \in DOMAIN body |-> FromJson(body[k])]

\* What instaloader returns for a post: its caption or None, its date and
\* the author's most liked comment or None
Posts ==
  {[caption |-> NoneV, date_utc |-> d, author_top_comment |-> NoneV] : d \in Datetimes}
    \cup {[caption |-> StrField(<<"Pasta">>), date_utc |-> d,
           author_top_comment |-> StrField(<<"Enjoy">>)] : d \in Datetimes}
\* The RawRecipeData that extract_post_data builds from a post
RawRecipeDataOf(instagram_url, post) ==
  [url |-> StrField(instagram_url),
   caption |-> IF post.caption = NoneV THEN StrField(<<>>) ELSE post.caption,
   timestamp |-> post.date_utc,
   author_top_comment |-> post.author_top_comment]

\* The calls publish_raw_recipe_data of tasks.py makes on pika, in order, the
\* brk-th of them raising; nothing follows a call that raised
PikaCalls_not_durable(body) ==
  <<[method |-> "BlockingConnection"],
    [method |-> "channel"],
    [method |-> "queue_declare", queue |-> "raw_recipe_data", durable |-> FALSE],
    [method |-> "basic_publish", exchange |-> "", routing_key |-> "raw_recipe_data",
     body |-> body, delivery_mode |-> 2, content_type |-> "application/json"],
    [method |-> "close"]>>
PikaCalls(body) ==
  <<[method |-> "BlockingConnection"],
    [method |-> "channel"],
    [method |-> "queue_declare", queue |-> "raw_recipe_data", durable |-> TRUE],
    [method |-> "basic_publish", exchange |-> "", routing_key |-> "raw_recipe_data",
     body |-> body, delivery_mode |-> 2, content_type |-> "application/json"],
    [method |-> "close"]>>
NoPikaBreak == Len(PikaCalls(NoneV)) + 1
PikaBreaks == 1..NoPikaBreak

\* publish_raw_recipe_data of tasks.py and src/tasks.py
tasks_publish_raw_recipe_data(raw_data, brk) ==
  LET validated_data == RawRecipeData(raw_data)
      message == model_dump(validated_data.model)
      calls == PikaCalls(json_dumps(message))
  IN IF ~validated_data.ok
       THEN [ops |-> <<>>, raised |-> <<>>, exc |-> "ValidationError",
             err |-> ValidationText, validated |-> NoneV]
       ELSE [ops |-> SubSeq(calls, 1, Min(brk - 1, Len(calls))),
             raised |-> IF brk <= Len(calls) THEN <<calls[brk].method>> ELSE <<>>,
             exc |-> IF brk <= Len(calls) THEN "AMQPError" ELSE "none",
             err |-> IF brk <= Len(calls) THEN ChannelError ELSE NoText,
             validated |-> validated_data.model]

\* InstagramCrawler.extract_post_data of the root instagram_crawler.py, which
\* tasks.py imports: whatever is raised becomes a plain Exception
root_extract_post_data(instagram_url, ext) ==
  LET sc == _extract_shortcode(instagram_url) IN
  IF ~sc.ok
    THEN [exc |-> "Exception",
          err |-> Cat(ExtractPrefix, Cat(InvalidUrlPrefix, UrlText(instagram_url))),
          data |-> [url |-> <<>>, post |-> <<>>]]
  ELSE IF ext.kind # "ok"
    THEN [exc |-> "Exception", err |-> Cat(ExtractPrefix, ext.text),
          data |-> [url |-> <<>>, post |-> <<>>]]
  ELSE [exc |-> "none", err |-> NoText,
        data |-> [url |-> instagram_url, post |-> sc.code]]

\* @app.task(..., max_retries=3)
task_max_retries == 3
\* retry_countdown = 2 ** self.request.retries * 60
retry_countdown_linear(retries) == (retries + 1) * 60
retry_countdown(retries) == (2 ^ retries) * 60

\* Task.retry of Celery inside a worker: the task is sent again with the
\* countdown and Retry is raised, unless that would be more than max_retries
\* retries, in which case exc itself is raised
self_retry_not_for_validation(retries, countdown, tried) ==
  IF retries + 1 > task_max_retries \/ tried.exc = "ValidationError"
    THEN [state |-> "failure", countdown |-> 0, exc |-> tried.exc, err |-> tried.err]
    ELSE [state |-> "retry", countdown |-> countdown, exc |-> "Retry", err |-> tried.err]
self_retry(retries, countdown, tried) ==
  IF retries + 1 > task_max_retries
    THEN [state |-> "failure", countdown |-> 0, exc |-> tried.exc, err |-> tried.err]
    ELSE [state |-> "retry", countdown |-> countdown, exc |-> "Retry", err |-> tried.err]

\* crawl_instagram_post of src/tasks.py (variant "src") and of tasks.py
\* (variant "celery"): what it publishes and how it ends
crawl_instagram_post(variant, request_data, retries, ext, post, brk) ==
  LET request == CrawlRequest(request_data)
      instagram_url == UrlStr(request.instagram_url)
      ex == IF variant = "src" THEN extract_post_data(instagram_url, ext)
                               ELSE root_extract_post_data(instagram_url, ext)
      pub == tasks_publish_raw_recipe_data(model_dump(RawRecipeDataOf(instagram_url, post)), brk)
      tried ==
        IF ~request.ok
          THEN [ops |-> <<>>, exc |-> "ValidationError", err |-> ValidationText,
                validated |-> NoneV, extracted |-> FALSE, publish_called |-> FALSE]
        ELSE IF ex.exc # "none"
          THEN [ops |-> <<>>, exc |-> ex.exc, err |-> ex.err,
                validated |-> NoneV, extracted |-> FALSE, publish_called |-> FALSE]
        ELSE [ops |-> pub.ops, exc |-> pub.exc, err |-> pub.err,
              validated |-> pub.validated, extracted |-> TRUE, publish_called |-> TRUE]
      ending ==
        IF tried.exc = "none"
          THEN [state |-> "success", countdown |-> 0, exc |-> "none", err |-> NoText]
        ELSE IF variant = "src"
          THEN [state |-> "failure", countdown |-> 0, exc |-> tried.exc, err |-> tried.err]
        ELSE self_retry(retries, retry_countdown(retries), tried)
  IN [state |-> ending.state, countdown |-> ending.countdown,
      exc |-> ending.exc, err |-> ending.err, cause |-> tried.exc,
      ops |-> tried.ops, validated |-> tried.validated,
      extracted |-> tried.extracted, publish_called |-> tried.publish_called]

\* The request_data given to crawl_instagram_post
TaskRequests ==
  {UrlObj(PostUrl).fields, UrlObj(ReelUrl).fields, UrlObj(FacebookUrl).fields,
   UrlObj(NotAUrl).fields, NoFields}
\* The raw_data given to publish_raw_recipe_data by a caller of its own: a
\* model's fields with the timestamp as a datetime or as its ISO string, and
\* the same without the url
PublishInputs ==
  LET full == {RawRecipeDataOf(UrlStr(PostUrl), post) : post \in Posts}
                \cup {model_dump(RawRecipeDataOf(UrlStr(PostUrl), post)) : post \in Posts}
  IN full \cup {[k \in DOMAIN d \ {"url"} |-> d[k]] : d \in full}

\* A function of tasks.py is about to be called; post is what Instagram has
\* at the URL of the request
NewTask(variant, input, post) ==
  [variant |-> variant, state |-> "queued", input |-> input, post |-> post, retries |-> 0,
   countdown |-> 0, exc |-> "none", err |-> NoText, cause |-> "none", ops |-> <<>>,
   validated |-> NoneV, extracted |-> FALSE, publish_called |-> FALSE,
   ext |-> [kind |-> "ok", text |-> NoText]]

InitTasks ==
  /\ crawl_requests = <<>>
  /\ delayed_exchange = <<>>
  /\ raw_recipe_data = <<>>
  /\ crawl_requests_failed = <<>>
  /\ worker = "init"
  /\ delivery_tag = 0
  /\ clock = 0
  /\ produced = 0
  /\ breaks = 0
  /\ last = NoRun
  /\ unacked = <<>>
  /\ task \in {NewTask(variant, input, post) :
                  variant \in {"src", "celery"}, input \in TaskRequests, post \in Posts}
               \cup {NewTask("publish", input, NoneV) : input \in PublishInputs}

\* The messages that completed basic_publish calls put on 'raw_recipe_data'
PublishedBy(ops) ==
  IF \E i \in 1..Len(ops) : ops[i].method = "basic_publish"
    THEN <<[id |-> 1, body |-> ops[4].body, headers |-> NoHeaders]>>
    ELSE <<>>

\* crawl_instagram_post runs once, for any extractor outcome and any failure
\* of the broker
RunTask ==
  /\ task.variant \in {"src", "celery"}
  /\ task.state = "queued"
  /\ \E ext \in ExtractorOutcomes, brk \in PikaBreaks :
       \E run \in {crawl_instagram_post(task.variant, task.input, task.retries,
                                        ext, task.post, brk)} :
          /\ task' = [task EXCEPT !.state = run.state, !.countdown = run.countdown,
                                  !.exc = run.exc, !.err = run.err, !.cause = run.cause,
                                  !.ops = run.ops, !.validated = run.validated,
                                  !.extracted = run.extracted,
                                  !.publish_called = run.publish_called, !.ext = ext]
          /\ raw_recipe_data' = raw_recipe_data \o PublishedBy(run.ops)
  /\ UNCHANGED <<crawl_requests, delayed_exchange, crawl_requests_failed, worker,
                 delivery_tag, clock, produced, breaks, last, unacked>>

\* The countdown of a retry elapses and Celery delivers the task again, its
\* request.retries one higher
CeleryRedeliver ==
  /\ task.variant = "celery"
  /\ task.state = "retry"
  /\ task' = [task EXCEPT !.state = "queued", !.retries = @ + 1]
  /\ UNCHANGED <<crawl_requests, delayed_exchange, raw_recipe_data, crawl_requests_failed,
                 worker, delivery_tag, clock, produced, breaks, last, unacked>>

\* publish_raw_recipe_data is called with its input, for any failure of the
\* broker
CallPublish ==
  /\ task.variant = "publish"
  /\ task.state = "queued"
  /\ \E brk \in PikaBreaks :
       \E run \in {tasks_publish_raw_recipe_data(task.input, brk)} :
          /\ task' = [task EXCEPT !.state = IF run.exc = "none" THEN "success" ELSE "failure",
                                  !.exc = run.exc, !.err = run.err, !.cause = run.exc,
                                  !.ops = run.ops, !.validated = run.validated,
                                  !.publish_called = TRUE]
          /\ raw_recipe_data' = raw_recipe_data \o PublishedBy(run.ops)
  /\ UNCHANGED <<crawl_requests, delayed_exchange, crawl_requests_failed, worker,
                 delivery_tag, clock, produced, breaks, last, unacked>>

NextTasks == RunTask \/ CeleryRedeliver \/ CallPublish

SpecTasks == InitTasks /\ [][NextTasks]_vars

(* ------------------- worker.py, immediate requeue ---------------------- *)
\* A bound on the deliveries a channel of this worker makes
MaxDeliveries == 3

basic_nack_discarding(c, tag, requeue) ==
  [c EXCEPT !.ops = Append(@, [method |-> "basic_nack", delivery_tag |-> tag,
                               requeue |-> FALSE, ok |-> ChanOk(c)])]
basic_nack(c, tag, requeue) ==
  [c EXCEPT !.ops = Append(@, [method |-> "basic_nack", delivery_tag |-> tag,
                               requeue |-> requeue, ok |-> ChanOk(c)])]

\* The try block of process_message of worker.py
root_TryBlock(c, body, tag, ext) ==
  LET dec == DecodeRequest(body)
      request == CrawlRequest(dec.request_data)
      ex == root_extract_post_data(UrlStr(request.instagram_url), ext)
      c1 == publish_raw_recipe_data(c, ex.data)
      c2 == basic_ack(c1, tag)
  IN IF ~dec.ok THEN Raise(c, "ValueError", dec.err)
     ELSE IF ~request.ok THEN Raise(c, "ValueError", ValidationText)
     ELSE IF ex.exc # "none" THEN Raise(c, ex.exc, ex.err)
     ELSE IF c1.exc # "none" THEN c1
     ELSE IF LastOk(c2) THEN c2
     ELSE Raise(c2, "AMQPError", ChannelError)

\* CrawlWorker.process_message of worker.py: whatever the try block raises is
\* logged and the delivery is rejected with requeue; the handler calls no
\* sleep
root_process_message(msg, tag, ext, brk) ==
  LET tried == root_TryBlock(Ctx0(brk), msg.body, tag, ext)
      c1 == basic_nack(Raise(tried, "none", NoText), tag, TRUE)
      done == IF tried.exc = "none" THEN tried
              ELSE IF LastOk(c1) THEN c1
              ELSE Raise(c1, "AMQPError", ChannelError)
  IN [ops |-> done.ops, exc |-> done.exc,
      caught |-> IF tried.exc = "none" THEN "none" ELSE "Exception",
      error |-> tried.err]

\* The broker removes a delivery from its queue when it is acknowledged or
\* rejected without requeue
Settled(ops) ==
  \E i \in 1..Len(ops) :
     /\ ops[i].ok
     /\ \/ ops[i].method = "basic_ack"
        \/ ops[i].method = "basic_nack" /\ ~ops[i].requeue

\* One request is waiting, with any body, when the worker is started
InitRequeue ==
  /\ \E body \in Bodies,
        headers \in {NoHeaders, [k \in {"x-retry-count"} |-> IntV(1)]} :
       crawl_requests = <<[id |-> 1, body |-> body, headers |-> headers]>>
  /\ delayed_exchange = <<>>
  /\ raw_recipe_data = <<>>
  /\ crawl_requests_failed = <<>>
  /\ worker = "init"
  /\ delivery_tag = 0
  /\ clock = 0
  /\ produced = 1
  /\ breaks = 0
  /\ last = NoRun
  /\ unacked = <<>>
  /\ task = NoTask

\* The broker delivers the head of 'crawl_requests' and the worker runs
\* process_message of worker.py on it. A delivery rejected with requeue goes
\* back to the head of the queue, as does one left unsettled by a worker
\* that ends.
RequeueConsume ==
  /\ worker = "consuming"
  /\ crawl_requests # <<>>
  /\ delivery_tag < MaxDeliveries
  /\ \E ext \in ExtractorOutcomes, brk \in BreakPoints :
       \E run \in {root_process_message(Head(crawl_requests), delivery_tag + 1, ext, brk)} :
          /\ last' = [handled |-> TRUE, msg |-> Head(crawl_requests),
                      tag |-> delivery_tag + 1, ext |-> ext, now |-> clock,
                      ops |-> run.ops, exc |-> run.exc,
                      caught |-> run.caught, error |-> run.error]
          /\ raw_recipe_data' =
               raw_recipe_data \o Routed(run.ops, Head(crawl_requests).id, "", "raw_recipe_data")
          /\ crawl_requests' = IF Settled(run.ops) THEN Tail(crawl_requests) ELSE crawl_requests
          /\ worker' = IF run.exc = "none" THEN "consuming" ELSE "stopped"
          /\ breaks' = IF Failed(run.ops) THEN breaks + 1 ELSE breaks
  /\ delivery_tag' = delivery_tag + 1
  /\ UNCHANGED <<delayed_exchange, crawl_requests_failed, clock, produced, unacked, task>>

\* Time passes
Tick ==
  /\ clock < MaxClock
  /\ clock' = clock + 1
  /\ UNCHANGED <<crawl_requests, delayed_exchange, raw_recipe_data, crawl_requests_failed,
                 worker, delivery_tag, produced, breaks, last, unacked, task>>

NextRequeue == Start \/ RequeueConsume \/ Tick

SpecRequeue == InitRequeue /\ [][NextRequeue]_vars

(* ------------------ a request that is always rate-limited ------------- *)
\* The extractor outcomes that extract_post_data raises as a rate limit
RateLimitedOutcomes ==
  {e \in ExtractorOutcomes : e.kind = "ConnectionException" /\ IsRateLimitText(e.text)}

\* The bodies that reach the extractor: they decode, validate and name a post
ExtractableBodies ==
  {body \in Bodies :
     /\ DecodeRequest(body).ok
     /\ CrawlRequest(DecodeRequest(body).request_data).ok
     /\ _extract_shortcode(UrlStr(CrawlRequest(DecodeRequest(body).request_data).instagram_url)).ok}

\* A producer has published one such request, without a retry count, at time 0
InitRateLimited ==
  /\ \E body \in ExtractableBodies,
        headers \in {NoHeaders, [k \in {"x-source"} |-> StrV(0)]} :
       crawl_requests = <<[id |-> 1, body |-> body, headers |-> headers]>>
  /\ delayed_exchange = <<>>
  /\ raw_recipe_data = <<>>
  /\ crawl_requests_failed = <<>>
  /\ worker = "init"
  /\ delivery_tag = 0
  /\ clock = 0
  /\ produced = 1
  /\ breaks = 0
  /\ last = NoRun
  /\ unacked = <<>>
  /\ task = NoTask

\* Every extraction attempt is rate-limited
ConsumeRateLimited == ProcessMessage(RateLimitedOutcomes, {NoBreak})

\* The delayed exchange holds a message for the x-delay milliseconds of its
\* headers and then routes it to 'crawl_requests'; the clock, in seconds,
\* has advanced by that delay
DelayElapses ==
  /\ \E i \in 1..Len(delayed_exchange) :
       /\ crawl_requests' = Append(crawl_requests, delayed_exchange[i])
       /\ delayed_exchange' = SubSeq(delayed_exchange, 1, i - 1)
                                \o SubSeq(delayed_exchange, i + 1, Len(delayed_exchange))
       /\ clock' = clock + (delayed_exchange[i].headers["x-delay"] \div 1000)
  /\ UNCHANGED <<raw_recipe_data, crawl_requests_failed, worker, delivery_tag,
                 produced, breaks, last, unacked, task>>

NextRateLimited == Start \/ ConsumeRateLimited \/ DelayElapses

SpecRateLimited == InitRateLimited /\ [][NextRateLimited]_vars

(* ------------------------- _extract_shortcode ------------------------- *)
\* The longest path, in tokens, of the URLs given to _extract_shortcode
MaxPathLen == 4

RECURSIVE TokenSeqs(_, _)
TokenSeqs(tokens, n) ==
  IF n = 0 THEN {<<>>}
  ELSE TokenSeqs(tokens, n - 1)
         \cup {Append(q, t) : q \in {r \in TokenSeqs(tokens, n - 1) : Len(r) = n - 1},
                              t \in tokens}

\* The strings given to the function: nothing, a word or a host, followed by
\* a path of "/" and segment names
ShortcodeUrls ==
  {prefix \o path :
     prefix \in {<<>>, <<"not-a-url">>,
                 <<"https:", "/", "/", "www.instagram.com">>,
                 <<"https:", "/", "/", "www.facebook.com">>},
     path \in TokenSeqs({"/", "p", "reel", "stories", "ABC"}, MaxPathLen)}

InitShortcode ==
  /\ crawl_requests = <<>>
  /\ delayed_exchange = <<>>
  /\ raw_recipe_data = <<>>
  /\ crawl_requests_failed = <<>>
  /\ worker = "init"
  /\ delivery_tag = 0
  /\ clock = 0
  /\ produced = 0
  /\ breaks = 0
  /\ last = NoRun
  /\ unacked = <<>>
  /\ \E url \in ShortcodeUrls :
       task = [variant |-> "shortcode", state |-> "new", url |-> url,
               ok |-> FALSE, code |-> <<>>]

\* A call of InstagramCrawler._extract_shortcode(url)
CallExtractShortcode ==
  /\ task.variant = "shortcode"
  /\ task.state = "new"
  /\ task' = [task EXCEPT !.state = "done",
                          !.ok = _extract_shortcode(task.url).ok,
                          !.code = _extract_shortcode(task.url).code]
  /\ UNCHANGED <<crawl_requests, delayed_exchange, raw_recipe_data, crawl_requests_failed,
                 worker, delivery_tag, clock, produced, breaks, last, unacked>>

NextShortcode == CallExtractShortcode

SpecShortcode == InitShortcode /\ [][NextShortcode]_vars

(* ----------------- what the extractor raises, classified --------------- *)
\* The extractor outcomes of the one-delivery specification and, with them,
\* a refusal by the server raised as a ConnectionException and the same text
\* raised as another exception
ClassifiedOutcomes ==
  ExtractorOutcomes
    \cup { [kind |-> "ConnectionException", text |-> Txt(<<"403", "Forbidden">>, 13)],
           [kind |-> "Exception", text |-> Txt(<<"403", "Forbidden">>, 13)] }

\* The bodies that pass json.loads, the list shim and CrawlRequest
ValidBodies ==
  {body \in Bodies :
     /\ DecodeRequest(body).ok
     /\ CrawlRequest(DecodeRequest(body).request_data).ok}

\* A consuming worker is given one valid request with any headers
InitClassified ==
  /\ \E body \in ValidBodies, headers \in ProducerHeaders :
       crawl_requests = <<[id |-> 1, body |-> body, headers |-> headers]>>
  /\ delayed_exchange = <<>>
  /\ raw_recipe_data = <<>>
  /\ crawl_requests_failed = <<>>
  /\ worker = "consuming"
  /\ delivery_tag = 0
  /\ clock \in 0..MaxClock
  /\ produced = 1
  /\ breaks = 0
  /\ last = NoRun
  /\ unacked = <<>>
  /\ task = NoTask

DeliverClassified == ProcessMessage(ClassifiedOutcomes, {NoBreak})

NextClassified == DeliverClassified \/ Start

SpecClassified == InitClassified /\ [][NextClassified]_vars

(* ------------------ one request and all its redeliveries --------------- *)
\* A producer has published one valid request without a retry count
InitChain ==
  /\ \E body \in ValidBodies,
        headers \in {NoHeaders, [k \in {"x-source"} |-> StrV(0)]} :
       crawl_requests = <<[id |-> 1, body |-> body, headers |-> headers]>>
  /\ delayed_exchange = <<>>
  /\ raw_recipe_data = <<>>
  /\ crawl_requests_failed = <<>>
  /\ worker = "init"
  /\ delivery_tag = 0
  /\ clock = 0
  /\ produced = 1
  /\ breaks = 0
  /\ last = NoRun
  /\ unacked = <<>>
  /\ task = NoTask

\* The extractor does whatever it may do, on a channel that does not fail
ConsumeChain == ProcessMessage(ExtractorOutcomes, {NoBreak})

NextChain == Start \/ ConsumeChain \/ DelayElapses

SpecChain == InitChain /\ [][NextChain]_vars

(* --------------------- connect() and start() --------------------------- *)
\* The calls CrawlWorker.connect makes on the broker, in order
ConnectCalls ==
  <<[method |-> "BlockingConnection"],
    [method |-> "channel"],
    [method |-> "queue_declare", queue |-> "crawl_requests", durable |-> TRUE],
    [method |-> "queue_declare", queue |-> "raw_recipe_data", durable |-> TRUE],
    [method |-> "queue_declare", queue |-> "crawl_requests_failed", durable |-> TRUE],
    [method |-> "exchange_declare", exchange |-> "delayed_exchange",
     exchange_type |-> "x-delayed-message", durable |-> TRUE],
    [method |-> "queue_bind", queue |-> "crawl_requests", exchange |-> "delayed_exchange",
     routing_key |-> "crawl_requests"],
    [method |-> "basic_qos", prefetch_count |-> prefetch_count]>>

\* CrawlWorker.connect when its call number brk raises: the calls it
\* completed and what leaves it. What exchange_declare or queue_bind raises
\* is logged and raised again.
connect(brk) ==
  [ops |-> SubSeq(ConnectCalls, 1, Min(brk - 1, Len(ConnectCalls))),
   exc |-> IF brk <= Len(ConnectCalls) THEN "AMQPError" ELSE "none",
   raised |-> IF brk <= Len(ConnectCalls) THEN ConnectCalls[brk].method ELSE "none"]

BasicConsume == [method |-> "basic_consume", queue |-> "crawl_requests", auto_ack |-> FALSE]

\* CrawlWorker.start up to start_consuming: connect, then basic_consume;
\* nothing that connect raises is caught
start_falling_back(brk) ==
  LET c == connect(brk)
  IN IF c.exc # "none" /\ c.raised # "exchange_declare" THEN c
     ELSE IF brk = Len(ConnectCalls) + 1
       THEN [ops |-> c.ops, exc |-> "AMQPError", raised |-> "basic_consume"]
     ELSE [ops |-> Append(c.ops, BasicConsume), exc |-> "none", raised |-> "none"]
start(brk) ==
  LET c == connect(brk)
  IN IF c.exc # "none" THEN c
     ELSE IF brk = Len(ConnectCalls) + 1
       THEN [ops |-> c.ops, exc |-> "AMQPError", raised |-> "basic_consume"]
     ELSE [ops |-> Append(c.ops, BasicConsume), exc |-> "none", raised |-> "none"]

\* The calls of start() at which the broker may fail, and none
StartBreaks == 1..(Len(ConnectCalls) + 2)

\* The worker process has been created; start() has not run
InitConnect ==
  /\ crawl_requests = <<>>
  /\ delayed_exchange = <<>>
  /\ raw_recipe_data = <<>>
  /\ crawl_requests_failed = <<>>
  /\ worker = "init"
  /\ delivery_tag = 0
  /\ clock = 0
  /\ produced = 0
  /\ breaks = 0
  /\ last = NoRun
  /\ unacked = <<>>
  /\ task = [variant |-> "start", state |-> "new", ops |-> <<>>, exc |-> "none",
             raised |-> "none"]

\* main(): start() runs; the worker consumes if it returns from basic_consume
\* and the process ends with the exception otherwise
StartWorker ==
  /\ worker = "init"
  /\ task.variant = "start" /\ task.state = "new"
  /\ \E brk \in StartBreaks :
       \E run \in {start(brk)} :
          /\ task' = [task EXCEPT !.state = "done", !.ops = run.ops, !.exc = run.exc,
                                  !.raised = run.raised]
          /\ worker' = IF run.ops # <<>> /\ run.ops[Len(run.ops)].method = "basic_consume"
                         THEN "consuming" ELSE "stopped"
  /\ delivery_tag' = 0
  /\ UNCHANGED <<crawl_requests, delayed_exchange, raw_recipe_data,
                 crawl_requests_failed, clock, produced, breaks, last, unacked>>

\* The consuming worker handles a delivery; the extractor succeeds
ConsumeConnected ==
  ProcessMessage({e \in ExtractorOutcomes : e.kind = "ok"}, {NoBreak})

NextConnect == Produce \/ StartWorker \/ ConsumeConnected \/ DeliverDelayed

SpecConnect == InitConnect /\ [][NextConnect]_vars

(* ------------------------- reading the last run ------------------------ *)
IsPublishTo(op, exchange, routing_key) ==
  op.method = "basic_publish" /\ op.exchange = exchange /\ op.routing_key = routing_key
\* The publishes the last run attempted to the result queue, to the delayed
\* exchange and to the dead-letter queue, by their position in last.ops
ResultOps == {i \in 1..Len(last.ops) : IsPublishTo(last.ops[i], "", "raw_recipe_data")}
RetryOps == {i \in 1..Len(last.ops) : IsPublishTo(last.ops[i], "delayed_exchange", "crawl_requests")}
DeadLetterOps == {i \in 1..Len(last.ops) : IsPublishTo(last.ops[i], "", "crawl_requests_failed")}
Taken(S) == {i \in S : last.ops[i].ok}
ChannelHealthy == \A i \in 1..Len(last.ops) : last.ops[i].ok

HasCount(msg) == "x-retry-count" \in DOMAIN msg.headers
\* The x-retry-count a delivery came with is a non-negative integer, or absent
CountIsNatural(msg) ==
  HasCount(msg) => (msg.headers["x-retry-count"].t = "int" /\ msg.headers["x-retry-count"].v >= 0)
\* That count, an absent header counting as 0
IncomingCount(msg) == IF HasCount(msg) THEN msg.headers["x-retry-count"].v ELSE 0

(* ------------------------------- claims -------------------------------- *)

\* C1: every delivery, whatever its body, headers and extractor outcome, ends
\* with basic_ack of its delivery tag: process_message never leaves it
\* unacknowledged. (Stated for runs in which the channel does not fail.)
C1_EveryDeliveryAcked ==
  (last.handled /\ ChannelHealthy) =>
     /\ last.exc = "none"
     /\ last.ops # <<>>
     /\ last.ops[Len(last.ops)].method = "basic_ack"
     /\ last.ops[Len(last.ops)].delivery_tag = last.tag

\* C2: for every delivery exactly one of the three side effects happens
\* before the acknowledgement: a result, a retry or a dead-letter record is
\* published; never two and never none. (Stated for deliveries with a
\* well-formed retry count, on a channel that does not fail.)
C2_ExactlyOneSideEffect ==
  (last.handled /\ ChannelHealthy /\ CountIsNatural(last.msg)) =>
     Cardinality(Taken(ResultOps) \cup Taken(RetryOps) \cup Taken(DeadLetterOps)) = 1

\* C3: a rate-limited failure with incoming retry count 0, 1, 2 schedules a
\* redelivery delayed by 300000, 900000, 3600000 ms, and with count 3 it
\* schedules none and dead-letters the message.
C3_RateLimitedDelays ==
  (/\ last.handled /\ last.caught = "InstagramRateLimitError"
   /\ CountIsNatural(last.msg) /\ IncomingCount(last.msg) <= 3) =>
     IF IncomingCount(last.msg) < 3
       THEN /\ Cardinality(RetryOps) = 1
            /\ \A i \in RetryOps :
                 last.ops[i].headers["x-delay"] =
                   <<300000, 900000, 3600000>>[IncomingCount(last.msg) + 1]
       ELSE RetryOps = {} /\ Cardinality(DeadLetterOps) = 1

C3_Witness ==
  /\ last.handled /\ last.caught = "InstagramRateLimitError"
  /\ HasCount(last.msg) /\ IncomingCount(last.msg) = 2
  /\ \E m \in {delayed_exchange[i] : i \in 1..Len(delayed_exchange)} :
       m.headers["x-delay"] = 3600000

\* C4: a transient failure (neither rate limit nor ValueError) with incoming
\* retry count 0, 1, 2 schedules a redelivery delayed by 30000, 300000,
\* 900000 ms, and with count 3 it schedules none and dead-letters the message.
C4_TransientDelays ==
  (/\ last.handled /\ last.caught = "Exception"
   /\ CountIsNatural(last.msg) /\ IncomingCount(last.msg) <= 3) =>
     IF IncomingCount(last.msg) < 3
       THEN /\ Cardinality(RetryOps) = 1
            /\ \A i \in RetryOps :
                 last.ops[i].headers["x-delay"] =
                   <<30000, 300000, 900000>>[IncomingCount(last.msg) + 1]
       ELSE RetryOps = {} /\ Cardinality(DeadLetterOps) = 1

C4_Witness ==
  /\ last.handled /\ last.caught = "Exception"
  /\ HasCount(last.msg) /\ IncomingCount(last.msg) = 1
  /\ \E m \in {delayed_exchange[i] : i \in 1..Len(delayed_exchange)} :
       m.headers["x-delay"] = 300000

\* C5: for every incoming retry count n >= 3 and both non-validation failure
\* kinds the decision is dead-letter: nothing is published to the delayed
\* exchange and one record goes to the dead-letter queue (it arrives there
\* when the channel takes it).
C5_DeadLetterFromMaxRetries ==
  (/\ last.handled /\ last.caught \in {"InstagramRateLimitError", "Exception"}
   /\ CountIsNatural(last.msg) /\ IncomingCount(last.msg) >= 3) =>
     /\ RetryOps = {}
     /\ Cardinality(DeadLetterOps) = 1
     /\ ChannelHealthy =>
          /\ crawl_requests_failed # <<>>
          /\ crawl_requests_failed[Len(crawl_requests_failed)].id = last.msg.id
          /\ crawl_requests_failed[Len(crawl_requests_failed)].body.original_message
               = last.msg.body.val

C5_Witness ==
  /\ last.handled /\ last.caught = "InstagramRateLimitError"
  /\ IncomingCount(last.msg) = 4
  /\ Len(crawl_requests_failed) = 1 /\ delayed_exchange = <<>>

\* C6: every validation-class failure of a delivery (invalid URL shape,
\* missing instagram_url, body that is not an object or list of object) is
\* dead-lettered whatever its x-retry-count: no redelivery is scheduled.
ValidationFailure(body) ==
  \/ ~DecodeRequest(body).ok
  \/ ~CrawlRequest(DecodeRequest(body).request_data).ok
  \/ ~_extract_shortcode(
        UrlStr(CrawlRequest(DecodeRequest(body).request_data).instagram_url)).ok
C6_ValidationNeverRetried ==
  (last.handled /\ ValidationFailure(last.msg.body)) => RetryOps = {}

\* C7: the body {"instagram_url": "https://www.facebook.com/x"} is classified
\* as a validation error and dead-lettered on its first delivery, with no
\* retry scheduled.
C7_FacebookUrlDeadLettered ==
  (last.handled /\ last.msg.body = Json(UrlObj(FacebookUrl)) /\ ~HasCount(last.msg)) =>
     /\ last.caught = "ValueError"
     /\ RetryOps = {}
     /\ DeadLetterOps # {}

\* C8: every malformed envelope (not JSON, a JSON scalar, an empty list, a
\* list whose first element is not an object) is dead-lettered at once: a
\* record for it is published to 'crawl_requests_failed' and no retry is
\* scheduled. (Stated for runs in which the channel does not fail.)
C8_MalformedEnvelopeDeadLettered ==
  (last.handled /\ ChannelHealthy /\ ~DecodeRequest(last.msg.body).ok) =>
     /\ RetryOps = {}
     /\ Cardinality(Taken(DeadLetterOps)) = 1

\* C9: no delivery is acknowledged without a message for it having been
\* published to the result queue, the delayed exchange or the dead-letter
\* queue.
C9_NoAckWithoutPublish ==
  (last.handled /\ Acked(last.ops)) =>
     Taken(ResultOps) \cup Taken(RetryOps) \cup Taken(DeadLetterOps) # {}

\* C10: each scheduled retry carries x-retry-count = the incoming count + 1
\* (the incoming count being 0 when the header is absent), and the delayed
\* exchange hands the message back with that count, so that along the
\* redeliveries of a request the count only grows.
C10_RetryCountIncrements ==
  [][/\ Len(delayed_exchange') > Len(delayed_exchange) =>
          \A i \in (Len(delayed_exchange) + 1)..Len(delayed_exchange') :
             /\ delayed_exchange'[i].id = Head(crawl_requests).id
             /\ delayed_exchange'[i].headers["x-retry-count"]
                  = IntV(IncomingCount(Head(crawl_requests)) + 1)
     /\ Len(delayed_exchange') < Len(delayed_exchange) =>
          \E i \in 1..Len(delayed_exchange) :
             crawl_requests'[Len(crawl_requests')] = delayed_exchange[i]
    ]_vars

C10_Witness ==
  /\ last.handled /\ HasCount(last.msg) /\ IncomingCount(last.msg) = 2
  /\ \E i \in 1..Len(delayed_exchange) :
       /\ delayed_exchange[i].id = last.msg.id
       /\ delayed_exchange[i].headers["x-retry-count"] = IntV(3)

\* The messages waiting in the work queue or held by the delayed exchange
Waiting ==
  {crawl_requests[i] : i \in 1..Len(crawl_requests)}
    \cup {delayed_exchange[i] : i \in 1..Len(delayed_exchange)}

\* C11: x-first-attempt is set when the first retry of a request is scheduled
\* (to the time of that moment) and every later retry of the request
\* republishes the value the delivery came with, whatever the failure is.
C11_FirstAttemptPreserved ==
  [][Len(delayed_exchange') > Len(delayed_exchange) =>
       \A i \in (Len(delayed_exchange) + 1)..Len(delayed_exchange') :
          delayed_exchange'[i].headers["x-first-attempt"] =
            IF "x-first-attempt" \in DOMAIN Head(crawl_requests).headers
              THEN Head(crawl_requests).headers["x-first-attempt"]
              ELSE clock
    ]_vars

C11_Witness ==
  /\ last.handled /\ IncomingCount(last.msg) = 2
  /\ last.msg.headers["x-last-error"].msg # last.error.msg
  /\ \E i \in 1..Len(delayed_exchange) :
       /\ delayed_exchange[i].id = last.msg.id
       /\ delayed_exchange[i].headers["x-retry-count"] = IntV(3)
       /\ delayed_exchange[i].headers["x-first-attempt"] < last.now

\* C12: a scheduled retry carries as x-last-error the text of the failure of
\* the delivery just handled, cut to 500 characters, in place of the error
\* the delivery came with; no message waiting in the delayed exchange or in
\* the work queue carries an x-last-error of more than 500 characters.
C12_LastErrorReplaced ==
  /\ \A m \in Waiting :
       "x-last-error" \in DOMAIN m.headers => m.headers["x-last-error"].len <= 500
  /\ last.handled =>
       \A i \in RetryOps :
          /\ last.ops[i].headers["x-last-error"].msg = last.error.msg
          /\ last.ops[i].headers["x-last-error"].len
               = (IF last.error.len <= 500 THEN last.error.len ELSE 500)

C12_Witness ==
  /\ last.handled /\ last.error.len > 500
  /\ "x-last-error" \in DOMAIN last.msg.headers
  /\ last.msg.headers["x-last-error"].msg # last.error.msg
  /\ \E m \in Waiting :
       /\ m.id = last.msg.id
       /\ m.headers["x-last-error"].msg = last.error.msg
       /\ m.headers["x-last-error"].len = 500

\* The results and the dead-letter records published for one request
ResultsOf(id) == {i \in 1..Len(raw_recipe_data) : raw_recipe_data[i].id = id}
DeadLettersOf(id) == {i \in 1..Len(crawl_requests_failed) : crawl_requests_failed[i].id = id}

\* C13: every request placed on 'crawl_requests' reaches a terminal state, a
\* result or a dead-letter record. A request that waits neither in the queue
\* nor in the delayed exchange can reach none any more, so: such a request
\* has a result or a dead-letter record.
C13_EveryRequestTerminates ==
  \A id \in 1..produced :
     (\A m \in Waiting : m.id # id) => (ResultsOf(id) # {} \/ DeadLettersOf(id) # {})

\* C14: for a valid post URL whose extraction fails transiently on the first
\* and second delivery and succeeds on the third, the first retry is delayed
\* by 30000 ms with x-retry-count 1, the second by 300000 ms with
\* x-retry-count 2, and the third delivery publishes exactly one result,
\* which carries no headers; nothing goes to the dead-letter queue.
C14_TwoRetriesThenResult ==
  /\ \A m \in Waiting :
       (m.body = Json(UrlObj(PostUrl)) /\ m.headers # NoHeaders) =>
          \/ m.headers["x-retry-count"] = IntV(1) /\ m.headers["x-delay"] = 30000
          \/ m.headers["x-retry-count"] = IntV(2) /\ m.headers["x-delay"] = 300000
  /\ \A id \in 1..produced :
       ResultsOf(id) # {} =>
          /\ Cardinality(ResultsOf(id)) = 1
          /\ DeadLettersOf(id) = {}
          /\ \A i \in ResultsOf(id) : raw_recipe_data[i].headers = NoHeaders
  /\ (last.handled /\ last.msg.body = Json(UrlObj(PostUrl))) =>
       /\ DeadLetterOps = {}
       /\ DeadLettersOf(last.msg.id) = {}
       /\ IF IncomingCount(last.msg) < 2
            THEN ResultOps = {} /\ Cardinality(Taken(RetryOps)) = 1
            ELSE /\ IncomingCount(last.msg) = 2
                 /\ RetryOps = {} /\ Cardinality(Taken(ResultOps)) = 1
                 /\ Cardinality(ResultsOf(last.msg.id)) = 1

C14_Witness ==
  /\ last.handled /\ last.msg.body = Json(UrlObj(PostUrl))
  /\ HasCount(last.msg)
  /\ last.msg.headers["x-retry-count"] = IntV(2)
  /\ last.msg.headers["x-delay"] = 300000
  /\ \E i \in ResultsOf(last.msg.id) :
       raw_recipe_data[i].body.url = UrlStr(PostUrl) /\ raw_recipe_data[i].headers = NoHeaders

\* C15: when the publish of the result fails, the delivery fails for good: a
\* dead-letter publish is attempted, no retry is published to the delayed
\* exchange (so no retry count is incremented), and basic_ack of the
\* delivery is called.
C15_ResultPublishFailureIsFatal ==
  (last.handled /\ \E i \in ResultOps : ~last.ops[i].ok) =>
     /\ RetryOps = {}
     /\ DeadLetterOps # {}
     /\ last.ops[Len(last.ops)].method = "basic_ack"
     /\ last.ops[Len(last.ops)].delivery_tag = last.tag

\* C16: when the publish of a retry to the delayed exchange fails,
\* _schedule_retry makes exactly one publish of the original message to
\* 'crawl_requests_failed', with an error that starts with 'Retry scheduling
\* failed:', raises nothing to process_message, and process_message then
\* calls basic_ack of the delivery as its last channel operation.
C16_RetryPublishFallback ==
  \A i \in RetryOps :
     (last.handled /\ ~last.ops[i].ok) =>
        /\ RetryOps = {i}
        /\ DeadLetterOps = {i + 1}
        /\ last.ops[i + 1].body.original_message = last.msg.body.val
        /\ SubSeq(last.ops[i + 1].body.error.msg, 1, Len(RetryFailedPrefix.msg))
             = RetryFailedPrefix.msg
        /\ Len(last.ops) = i + 2
        /\ last.ops[i + 2].method = "basic_ack"
        /\ last.ops[i + 2].delivery_tag = last.tag
        /\ last.exc \in {"none", "AMQPError"}

C16_Witness ==
  /\ last.handled
  /\ \E i \in RetryOps :
       /\ ~last.ops[i].ok
       /\ i + 1 \in DeadLetterOps
       /\ last.ops[i + 1].body.error = Cat(RetryFailedPrefix, ChannelError)
       /\ last.ops[Len(last.ops)].method = "basic_ack"

\* C17: for each request at most one result is ever published to
\* 'raw_recipe_data', over all its deliveries and redeliveries, also when
\* basic_ack fails after the result was published and the broker delivers
\* the unacknowledged message again.
C17_AtMostOneResult ==
  \A id \in 1..produced : Cardinality(ResultsOf(id)) <= 1

\* C18: when SIGINT or SIGTERM arrives while process_message handles a
\* delivery, the delivery is completed before the worker exits: its result,
\* retry or dead-letter record is published and it is acknowledged, so that
\* at shutdown nothing is published but unacknowledged, or unhandled.
C18_GracefulShutdown ==
  (worker = "exited" /\ last.handled /\ last.exc = "SystemExit") =>
     /\ Acked(last.ops)
     /\ Taken(ResultOps) \cup Taken(RetryOps) \cup Taken(DeadLetterOps) # {}

\* C19: the worker holds at most one unacknowledged delivery at any time,
\* and process_message begins on a delivery only when every delivery before
\* it has been acknowledged: the one it begins on is the only one held.
C19_OneUnackedDelivery ==
  [][/\ Len(unacked') <= 1
     /\ last' # last => (Len(unacked) = 1 /\ last'.msg = unacked[1])
    ]_vars

C19_Witness ==
  /\ Len(unacked) = 1
  /\ crawl_requests # <<>>
  /\ last.handled
  /\ worker = "consuming"

\* The four headers _schedule_retry writes
RetryHeaders == {"x-retry-count", "x-first-attempt", "x-last-error", "x-delay"}

\* C20: a scheduled retry republishes the body of the delivery unchanged, a
\* list-wrapped body staying list-wrapped, to 'delayed_exchange' with routing
\* key 'crawl_requests'; its headers are those of the delivery with only
\* x-retry-count, x-first-attempt, x-last-error and x-delay added or updated.
C20_RetryKeepsBodyAndHeaders ==
  last.handled =>
    \A i \in 1..Len(last.ops) :
       (last.ops[i].method = "basic_publish" /\ last.ops[i].exchange = "delayed_exchange") =>
          /\ last.ops[i].routing_key = "crawl_requests"
          /\ last.ops[i].body = last.msg.body
          /\ DOMAIN last.ops[i].headers = DOMAIN last.msg.headers \cup RetryHeaders
          /\ \A k \in DOMAIN last.msg.headers \ RetryHeaders :
               last.ops[i].headers[k] = last.msg.headers[k]

C20_Witness ==
  /\ last.handled
  /\ last.msg.body = Json(JList(<<UrlObj(PostUrl)>>))
  /\ DOMAIN last.msg.headers = {"x-retry-count", "x-source"}
  /\ \E i \in 1..Len(delayed_exchange) :
       /\ delayed_exchange[i].body = Json(JList(<<UrlObj(PostUrl)>>))
       /\ delayed_exchange[i].headers["x-source"] = last.msg.headers["x-source"]
       /\ delayed_exchange[i].headers["x-retry-count"] = IntV(2)

\* The number of the channel operation from which the channel failed in the
\* last run
LastBreak ==
  IF Failed(last.ops)
    THEN CHOOSE i \in 1..Len(last.ops) :
           ~last.ops[i].ok /\ \A j \in 1..(i - 1) : last.ops[j].ok
    ELSE NoBreak

\* A channel operation without the body it carries
WithoutBody(op) == [k \in DOMAIN op \ {"body"} |-> op[k]]
\* What a published body says apart from its copy of the original message
BodyApartFromOriginal(op) ==
  IF op.method # "basic_publish" THEN <<>>
  ELSE IF op.routing_key = "raw_recipe_data" THEN <<op.body>>
  ELSE IF op.routing_key = "crawl_requests_failed" THEN <<op.body.error, op.body.timestamp>>
  ELSE <<>>
\* The URL that process_message passes to extract_post_data for a body
ExtractorArgument(body) == UrlStr(CrawlRequest(DecodeRequest(body).request_data).instagram_url)

\* C21: a body that is a JSON list whose first element is an object is
\* handled like the body that is that object alone: the same URL goes to the
\* extractor and, for the same headers and extractor outcome, the same
\* channel operations follow (result, retry with the same headers and delay,
\* or dead-letter with the same error), the same except branch is taken and
\* the same exception, if any, leaves process_message.
C21_ListLikeObject ==
  (/\ last.handled /\ last.msg.body.is_json /\ last.msg.body.val.t = "list"
   /\ Len(last.msg.body.val.items) > 0 /\ last.msg.body.val.items[1].t = "obj") =>
     LET alone == Json(last.msg.body.val.items[1])
         run == process_message([last.msg EXCEPT !.body = alone], last.tag, last.ext,
                                LastBreak, last.now)
     IN /\ ExtractorArgument(last.msg.body) = ExtractorArgument(alone)
        /\ run.caught = last.caught /\ run.exc = last.exc /\ run.error = last.error
        /\ Len(run.ops) = Len(last.ops)
        /\ \A i \in 1..Len(last.ops) :
             /\ WithoutBody(run.ops[i]) = WithoutBody(last.ops[i])
             /\ BodyApartFromOriginal(run.ops[i]) = BodyApartFromOriginal(last.ops[i])

C21_Witness ==
  /\ last.handled
  /\ last.msg.body = Json(JList(<<UrlObj(ReelUrl), UrlObj(FacebookUrl)>>))
  /\ Taken(ResultOps) # {}
  /\ \A i \in ResultOps : last.ops[i].body.url = UrlStr(ReelUrl)

\* A channel operation of a run on msg without what only names the moment
\* and the delivery: the delivery tag, the timestamp of a dead-letter record
\* and an x-first-attempt that the run itself set
Timeless(op, msg) ==
  IF op.method = "basic_ack" THEN [op EXCEPT !.delivery_tag = 0]
  ELSE IF op.routing_key = "crawl_requests_failed"
    THEN [op EXCEPT !.body = [@ EXCEPT !.timestamp = 0]]
  ELSE IF op.exchange = "delayed_exchange" /\ "x-first-attempt" \notin DOMAIN msg.headers
    THEN [op EXCEPT !.headers = [@ EXCEPT !["x-first-attempt"] = 0]]
  ELSE op

TaskExtraction ==
  LET instagram_url == UrlStr(CrawlRequest(task.input).instagram_url)
  IN IF task.variant = "src" THEN extract_post_data(instagram_url, task.ext)
                             ELSE root_extract_post_data(instagram_url, task.ext)
\* crawl_instagram_post has just run on a valid request
TaskRan ==
  /\ task.variant \in {"src", "celery"}
  /\ task.state \in {"success", "retry", "failure"}
  /\ CrawlRequest(task.input).ok

\* C23: when extraction fails, nothing is published to 'raw_recipe_data' for
\* that call or delivery: crawl_instagram_post of both tasks.py variants
\* does not call publish_raw_recipe_data and raises the failure with the
\* error text of the extractor, and process_message issues no result publish
\* for the same request and extractor outcome, wherever the channel fails.
C23_NoResultWithoutExtraction ==
  (TaskRan /\ TaskExtraction.exc # "none") =>
     /\ ~task.publish_called /\ task.ops = <<>>
     /\ task.cause = TaskExtraction.exc /\ task.err = TaskExtraction.err
     /\ _extract_shortcode(task.input["instagram_url"]).ok =>
          Contains(task.err.msg, task.ext.text.msg)
     /\ \A brk \in 1..NoBreak :
          LET run == process_message([id |-> 1, body |-> Json(JObj(task.input)),
                                      headers |-> NoHeaders], 1, task.ext, brk, 0)
          IN /\ run.caught \in {"InstagramRateLimitError", "Exception"}
             /\ \A i \in 1..Len(run.ops) : ~IsPublishTo(run.ops[i], "", "raw_recipe_data")

C23_Witness ==
  /\ TaskRan /\ task.variant = "celery" /\ task.state = "retry"
  /\ task.ext.kind = "ConnectionException"
  /\ IsHttpUrl(task.input["instagram_url"])
  /\ _extract_shortcode(task.input["instagram_url"]).ok
  /\ raw_recipe_data = <<>>
  /\ task.exc = "Retry"

\* C24: in the Celery variant a failure at retry number r = 0, 1, 2 requests
\* a retry with countdown 2^r * 60 seconds, 60, 120 and 240, and a failure at
\* retry number 3 is final: the task is retried at most 3 times.
C24_CeleryBackoff ==
  task.variant = "celery" =>
    /\ task.retries <= 3
    /\ task.state = "retry" =>
         /\ task.retries \in 0..2
         /\ task.countdown = <<60, 120, 240>>[task.retries + 1]
    /\ task.state = "failure" => task.retries = 3 /\ task.exc = task.cause

C24_Witness ==
  /\ task.variant = "celery" /\ task.state = "failure"
  /\ task.retries = 3 /\ task.cause = "Exception"

\* The names of the pika calls that publish_raw_recipe_data completed
Methods(ops) == [i \in 1..Len(ops) |-> ops[i].method]

\* C25: a call of publish_raw_recipe_data with valid data opens one
\* connection, declares the durable queue 'raw_recipe_data' once, publishes
\* one persistent message of content type application/json and closes the
\* connection, in that order (in full when no call on the broker raises, and
\* in that order up to the call that raises otherwise); with invalid data it
\* raises a validation error before it opens a connection.
C25_PublishSequence ==
  (task.variant # "none" /\ task.publish_called) =>
     LET all == <<"BlockingConnection", "channel", "queue_declare", "basic_publish", "close">>
     IN /\ Len(task.ops) <= Len(all)
        /\ Methods(task.ops) = SubSeq(all, 1, Len(task.ops))
        /\ \A i \in 1..Len(task.ops) :
             /\ task.ops[i].method = "queue_declare" =>
                  task.ops[i].queue = "raw_recipe_data" /\ task.ops[i].durable
             /\ task.ops[i].method = "basic_publish" =>
                  /\ task.ops[i].exchange = "" /\ task.ops[i].routing_key = "raw_recipe_data"
                  /\ task.ops[i].delivery_mode = 2
                  /\ task.ops[i].content_type = "application/json"
        /\ task.exc = "none" => Methods(task.ops) = all
        /\ (task.variant = "publish" /\ ~RawRecipeData(task.input).ok) =>
             task.exc = "ValidationError" /\ task.ops = <<>>
        /\ (task.variant = "publish" /\ RawRecipeData(task.input).ok) =>
             task.exc # "ValidationError"

C25_Witness ==
  /\ task.variant = "publish" /\ task.state = "success"
  /\ task.input["timestamp"].t = "isostr"
  /\ Len(task.ops) = 5 /\ task.ops[5].method = "close"
  /\ Len(raw_recipe_data) = 1

\* C26: a RawRecipeData serialized as it is published to the result queue,
\* model_dump with the timestamp as an ISO-8601 string, and validated again
\* as RawRecipeData from the decoded body is equal to the original in every
\* field; the timestamp comes back with the same second.
C26_ResultRoundTrip ==
  \A i \in 1..Len(raw_recipe_data) :
     (task.variant # "none" /\ task.state = "success") =>
        LET decoded == RawRecipeData(json_loads(raw_recipe_data[i].body))
        IN /\ decoded.ok
           /\ decoded.model = task.validated
           /\ decoded.model.timestamp.sec = task.validated.timestamp.sec
           /\ task.variant \in {"src", "celery"} =>
                decoded.model
                  = RawRecipeDataOf(UrlStr(CrawlRequest(task.input).instagram_url), task.post)
           /\ (task.variant = "publish" /\ task.input["timestamp"].t = "datetime") =>
                decoded.model = RawRecipeData(task.input).model

C26_Witness ==
  /\ task.variant = "src" /\ task.state = "success"
  /\ task.post.date_utc = Datetime(1, 250000, "utc")
  /\ task.post.author_top_comment = NoneV
  /\ Len(raw_recipe_data) = 1
  /\ raw_recipe_data[1].body["timestamp"].j = "string"
  /\ raw_recipe_data[1].body["author_top_comment"].j = "null"

\* The last run rejected its delivery with requeue
Nacked ==
  \E i \in 1..Len(last.ops) :
     last.ops[i].method = "basic_nack" /\ last.ops[i].requeue /\ last.ops[i].ok

\* C27: in the immediate-requeue worker a failed delivery is rejected with
\* requeue and the worker then waits for a cooldown before it takes the next
\* delivery: the delivery after a rejected one is handled at a later time.
C27_CooldownAfterNack ==
  [][(last.handled /\ Nacked /\ last' # last) => last'.now > last.now]_vars

\* C28: a request whose every extraction attempt is rate-limited is
\* dead-lettered after the extractor has been invoked 3 times and after
\* scheduled delays that add up to roughly 60 minutes (3600 s, ten minutes
\* more or less).
C28_RateLimitWorstCase ==
  (last.handled /\ Taken(DeadLetterOps) # {}) =>
     /\ delivery_tag = 3
     /\ clock >= 3000 /\ clock <= 4200

\* C29: no message-level failure leaves process_message: whatever the body,
\* the headers (x-retry-count missing, zero, large or not an integer) and the
\* extractor's exception, an exception leaves process_message only when an
\* operation on the broker channel has failed.
C29_OnlyBrokerFailuresEscape ==
  (last.handled /\ last.exc # "none") =>
     /\ last.exc = "AMQPError"
     /\ \E i \in 1..Len(last.ops) : ~last.ops[i].ok

\* The URL ends in /p/{id} or /reel/{id}, with or without a trailing slash,
\* {id} being one path segment
ShortcodeShape(url, id) ==
  /\ id # "/"
  /\ \E kind \in {"p", "reel"}, tail \in {<<>>, <<"/">>} :
       /\ Len(url) >= 4 + Len(tail)
       /\ SubSeq(url, Len(url) - Len(tail) - 3, Len(url)) = <<"/", kind, "/", id>> \o tail

\* C30: _extract_shortcode returns {id} for every URL of shape .../p/{id} or
\* .../reel/{id}, with or without a trailing slash, and raises ValueError for
\* every string of any other shape.
C30_ShortcodeByShape ==
  (task.variant = "shortcode" /\ task.state = "done") =>
     IF \E i \in 1..Len(task.url) : ShortcodeShape(task.url, task.url[i])
       THEN task.ok /\ Len(task.code) = 1 /\ ShortcodeShape(task.url, task.code[1])
       ELSE ~task.ok

\* The text contains '401', '403' or, in any case, 'rate limit'
ThrottlingText(text) ==
  \/ \E i \in 1..Len(text.msg) : text.msg[i] \in {"401", "403"}
  \/ \E i \in 1..(Len(text.msg) - 1) :
       /\ text.msg[i] \in {"rate", "Rate", "RATE"}
       /\ text.msg[i + 1] \in {"limit", "Limit", "LIMIT"}
\* The text begins with the words of prefix
StartsWith(text, prefix) ==
  /\ Len(text.msg) >= Len(prefix.msg)
  /\ SubSeq(text.msg, 1, Len(prefix.msg)) = prefix.msg
\* The last run was of a request whose URL names a post, and its extraction failed
ExtractionFailed ==
  /\ last.handled
  /\ last.ext.kind # "ok"
  /\ _extract_shortcode(ExtractorArgument(last.msg.body)).ok
\* Every retry the last run published carries the delay of that table
RetriesDelayedBy(table) ==
  \A i \in RetryOps :
     CountIsNatural(last.msg) =>
        last.ops[i].headers["x-delay"] = table[Min(IncomingCount(last.msg), 2) + 1]

C32_DelayedMessageInvariant ==
  (last.handled /\ CountIsNatural(last.msg)) =>
     \A i \in RetryOps :
        LET n == last.ops[i].headers["x-retry-count"]
            table == IF last.caught = "InstagramRateLimitError"
                       THEN <<300000, 900000, 3600000>>
                       ELSE <<30000, 300000, 900000>>
        IN /\ n.t = "int"
           /\ n.v \in 1..3
           /\ n.v = IncomingCount(last.msg) + 1
           /\ last.ops[i].headers["x-delay"] = table[n.v]
           /\ IncomingCount(last.msg) <= 2

C32_Witness ==
  /\ last.handled /\ last.caught = "Exception"
  /\ HasCount(last.msg) /\ IncomingCount(last.msg) = 2
  /\ \E i \in Taken(RetryOps) :
       /\ last.ops[i].headers["x-retry-count"] = IntV(3)
       /\ last.ops[i].headers["x-delay"] = 900000

\* C33: for a request first published without retry headers, the extractor
\* is invoked at most max_retries + 1 = 4 times over all its deliveries (each
\* delivery of the request invokes it once); the max-retries check comes
\* after the failure, so the delivery with x-retry-count = 3 is attempted
\* too: it publishes the result if the extraction succeeds and is
\* dead-lettered, without another retry, if it fails.
C33_AtMostFourAttempts ==
  /\ delivery_tag <= 4
  /\ last.handled =>
       /\ last.tag = IncomingCount(last.msg) + 1
       /\ IncomingCount(last.msg) <= 3
  /\ (last.handled /\ IncomingCount(last.msg) = 3) =>
       IF last.caught = "none"
         THEN Cardinality(Taken(ResultOps)) = 1 /\ DeadLetterOps = {} /\ RetryOps = {}
         ELSE /\ Cardinality(Taken(DeadLetterOps)) = 1 /\ RetryOps = {} /\ ResultOps = {}
              /\ Contains(last.error.msg, IF _extract_shortcode(ExtractorArgument(last.msg.body)).ok
                                            THEN last.ext.text.msg
                                            ELSE InvalidUrlPrefix.msg)

C33_Witness ==
  /\ last.handled /\ last.tag = 4 /\ delivery_tag = 4
  /\ IncomingCount(last.msg) = 3
  /\ last.ext.kind # "ok"
  /\ Len(crawl_requests_failed) = 1
  /\ crawl_requests = <<>> /\ delayed_exchange = <<>>

\* The x-last-error of the delivery says its previous attempt failed transiently
PreviousFailureTransient ==
  /\ "x-last-error" \in DOMAIN last.msg.headers
  /\ \/ StartsWith(last.msg.headers["x-last-error"], ExtractPrefix)
     \/ StartsWith(last.msg.headers["x-last-error"], ConnectionPrefix)

\* C34: rate-limited and transient failures share one counter: the delay of
\* a retry is the entry of the current failure kind's list at the index that
\* is the number of earlier failed attempts of the request, whatever their
\* kind (the k-th delivery of a request has k - 1 failed attempts behind it),
\* so a transient failure followed by a rate-limited one schedules 30 s and
\* then 15 min; and the retries of both kinds together are at most 3.
C34_SharedCounter ==
  last.handled =>
     \A i \in RetryOps :
        /\ last.ops[i].headers["x-delay"] =
             (IF last.caught = "InstagramRateLimitError"
                THEN <<300000, 900000, 3600000>>
                ELSE <<30000, 300000, 900000>>)[last.tag]
        /\ last.ops[i].headers["x-retry-count"] = IntV(last.tag)
        /\ last.tag <= 3
        /\ (last.tag = 2 /\ last.caught = "InstagramRateLimitError" /\ PreviousFailureTransient) =>
              /\ last.msg.headers["x-delay"] = 30000
              /\ last.ops[i].headers["x-delay"] = 900000

C34_Witness ==
  /\ last.handled /\ last.tag = 2
  /\ last.caught = "InstagramRateLimitError"
  /\ PreviousFailureTransient
  /\ last.msg.headers["x-delay"] = 30000
  /\ \E i \in Taken(RetryOps) : last.ops[i].headers["x-delay"] = 900000

\* C35: within one delivery the publish of its outcome (result, retry or
\* dead-letter) is attempted before basic_ack of that delivery: every
\* basic_ack in a run has a basic_publish before it, and no basic_publish
\* comes after a basic_ack.
C35_PublishBeforeAck ==
  last.handled =>
     \A j \in 1..Len(last.ops) :
        last.ops[j].method = "basic_ack" =>
           /\ \E i \in 1..(j - 1) : last.ops[i].method = "basic_publish"
           /\ \A i \in (j + 1)..Len(last.ops) : last.ops[i].method # "basic_publish"

\* C36: in the immediate-requeue worker every failure of a delivery, a
\* validation failure included, ends in basic_nack(requeue=True) of that
\* delivery: the failure path neither acknowledges nor publishes a
\* dead-letter or a retry, and the message stays in 'crawl_requests' with its
\* body and headers as they were (no attempt count is added); a message
\* leaves 'crawl_requests' only after a successful extraction and a
\* successful publish of its result.
C36_RequeueOnly ==
  /\ (last.handled /\ last.caught # "none") =>
       /\ last.ops # <<>>
       /\ last.ops[Len(last.ops)].method = "basic_nack"
       /\ last.ops[Len(last.ops)].requeue
       /\ last.ops[Len(last.ops)].delivery_tag = last.tag
       /\ ~Acked(last.ops)
       /\ DeadLetterOps = {} /\ RetryOps = {}
       /\ crawl_requests = <<last.msg>>
  /\ crawl_requests = <<>> =>
       /\ last.handled /\ last.caught = "none"
       /\ last.ext.kind = "ok"
       /\ _extract_shortcode(ExtractorArgument(last.msg.body)).ok
       /\ Taken(ResultOps) # {}
       /\ raw_recipe_data # <<>>

C36_Witness ==
  /\ last.handled /\ last.tag = 2
  /\ last.msg.body = NotJson
  /\ HasCount(last.msg)
  /\ Nacked
  /\ crawl_requests = <<last.msg>>

\* The run of the task that has ended raised: what it raised is task.cause
TaskRaised == task.state \in {"retry", "failure"} /\ task.cause # "none"

\* C37: in the Celery variant no kind of failure is exempt from retry: every
\* exception raised in crawl_instagram_post, a validation failure of the
\* request and a failure of the result publish after a successful extraction
\* included, leads to self.retry with the countdown 2^retries * 60 for as
\* long as retries are left, and when they are exhausted the exception is
\* raised and nothing is written to a dead-letter queue.
C37_CeleryRetriesEverything ==
  task.variant = "celery" =>
    /\ task.state \in {"retry", "failure"} => task.cause # "none"
    /\ (TaskRaised /\ task.retries < 3) =>
         /\ task.state = "retry"
         /\ task.exc = "Retry"
         /\ task.countdown = (2 ^ task.retries) * 60
    /\ (TaskRaised /\ task.retries >= 3) =>
         task.state = "failure" /\ task.exc = task.cause
    /\ ~CrawlRequest(task.input).ok =>
         (task.state # "queued" => TaskRaised /\ task.cause = "ValidationError")
    /\ crawl_requests_failed = <<>>
    /\ \A i \in 1..Len(task.ops) :
         task.ops[i].method = "basic_publish" => task.ops[i].routing_key = "raw_recipe_data"

C37_Witness ==
  /\ task.variant = "celery" /\ task.state = "retry"
  /\ task.retries = 1 /\ task.countdown = 120
  /\ task.extracted /\ task.publish_called
  /\ task.cause = "AMQPError"

C37_WitnessValidation ==
  /\ task.variant = "celery" /\ task.state = "retry"
  /\ task.cause = "ValidationError" /\ task.retries = 2

\* The calls start() has completed on the broker, by name
StartMethods == [i \in 1..Len(task.ops) |-> task.ops[i].method]
\* Position i of the calls of start() is the call m
IsCall(i, m) == i \in 1..Len(task.ops) /\ task.ops[i] = m

\* C38: the delayed-exchange worker issues basic_consume only after connect()
\* has declared the durable queues 'crawl_requests', 'raw_recipe_data' and
\* 'crawl_requests_failed', declared 'delayed_exchange', bound
\* 'crawl_requests' to it and set prefetch_count = 1, and it handles a
\* delivery only after basic_consume; if the delayed exchange cannot be
\* declared, connect() raises and the worker consumes nothing.
C38_ConnectBeforeConsume ==
  task.variant = "start" =>
    /\ \A j \in 1..Len(task.ops) :
         task.ops[j].method = "basic_consume" =>
            /\ \A q \in {"crawl_requests", "raw_recipe_data", "crawl_requests_failed"} :
                 \E i \in 1..(j - 1) :
                    IsCall(i, [method |-> "queue_declare", queue |-> q, durable |-> TRUE])
            /\ \E i \in 1..(j - 1) :
                 /\ task.ops[i].method = "exchange_declare"
                 /\ task.ops[i].exchange = "delayed_exchange"
                 /\ \E k \in (i + 1)..(j - 1) :
                      IsCall(k, [method |-> "queue_bind", queue |-> "crawl_requests",
                                 exchange |-> "delayed_exchange",
                                 routing_key |-> "crawl_requests"])
            /\ \E i \in 1..(j - 1) : IsCall(i, [method |-> "basic_qos", prefetch_count |-> 1])
    /\ (worker = "consuming" \/ last.handled) =>
         \E j \in 1..Len(task.ops) : task.ops[j].method = "basic_consume"
    /\ task.raised = "exchange_declare" =>
         /\ task.exc # "none"
         /\ worker = "stopped"
         /\ ~last.handled /\ delivery_tag = 0
         /\ \A j \in 1..Len(task.ops) :
              task.ops[j].method \notin {"basic_consume", "queue_bind", "basic_qos"}

C38_Witness ==
  /\ task.variant = "start" /\ task.state = "done"
  /\ Len(task.ops) = 9 /\ task.ops[9].method = "basic_consume"
  /\ last.handled /\ raw_recipe_data # <<>>

C38_WitnessNoPlugin ==
  /\ task.variant = "start" /\ task.raised = "exchange_declare"
  /\ worker = "stopped" /\ Len(crawl_requests) = 2

\* The function of tasks.py that ran has returned or raised
TaskEnded == task.variant \in {"src", "celery", "publish"} /\ task.state # "queued"
\* Call number i + 1 of publish_raw_recipe_data is the one that raised
RaisedAt(i) == task.cause = "AMQPError" /\ Len(task.ops) = i

\* C39: publish_raw_recipe_data closes the connection it opened on every
\* exit path: when it has returned or raised, also because queue_declare or
\* basic_publish raised, a connection it opened has been closed (unless
\* close itself is what raised).
C39_ConnectionAlwaysClosed ==
  (/\ TaskEnded /\ task.publish_called
   /\ \E i \in 1..Len(task.ops) : task.ops[i].method = "BlockingConnection"
   /\ ~RaisedAt(Len(PikaCalls(NoneV)) - 1)) =>
     \E i \in 1..Len(task.ops) : task.ops[i].method = "close"

====
